---- MODULE Spec2Model ----
(***************************************************************************)
(* Model of the bias-analysis endpoint POST /api/bias                      *)
(* (src/app/src/app/api/bias/route.ts, second version, lines 125-383).     *)
(*                                                                         *)
(* A JavaScript string is modelled as a sequence of one-character strings: *)
(* "ab." is <<"a", "b", ".">>.  A score is an integer number of            *)
(* thousandths: 0.92 is 920 and the threshold 0.5 is 500; the arithmetic   *)
(* of the statistics is done on the doubles these decimals are parsed to.  *)
(***************************************************************************)
EXTENDS Integers, Sequences, FiniteSets, TLC

\* ------------------------------------------------------------------ bounds

\* Most parts a request text is put together from.
MaxTextParts == 5

\* The parts request texts are built from: a word, sentence punctuation and
\* whitespace.  "ab. ab." is five parts.
TextParts == {<<"a", "b">>, <<".">>, <<" ">>}

\* ------------------------------------------------------- string primitives

\* The characters of \s, which are those String.prototype.trim removes:
\* space, the controls \t \n \v \f \r, the no-break space, and the
\* spaces and separators beyond Latin-1.  A character beyond Latin-1 is
\* written as its escape, "\\u2028" for U+2028.
Whitespace ==
    {" ", "\n", "\t", "\r", "\f", "", " ",
     "\\u1680", "\\u2000", "\\u2001", "\\u2002", "\\u2003", "\\u2004",
     "\\u2005", "\\u2006", "\\u2007", "\\u2008", "\\u2009", "\\u200a",
     "\\u2028", "\\u2029", "\\u202f", "\\u205f", "\\u3000", "\\ufeff"}

Punctuation == {".", "!", "?"}

\* The letters of Latin-1 that have another case in Latin-1.
LowerCase == <<"a","b","c","d","e","f","g","h","i","j","k","l","m",
               "n","o","p","q","r","s","t","u","v","w","x","y","z",
               "à","á","â","ã","ä","å","æ","ç","è","é","ê","ë","ì",
               "í","î","ï","ð","ñ","ò","ó","ô","õ","ö","ø","ù","ú",
               "û","ü","ý","þ">>

UpperCase == <<"A","B","C","D","E","F","G","H","I","J","K","L","M",
               "N","O","P","Q","R","S","T","U","V","W","X","Y","Z",
               "À","Á","Â","Ã","Ä","Å","Æ","Ç","È","É","Ê","Ë","Ì",
               "Í","Î","Ï","Ð","Ñ","Ò","Ó","Ô","Õ","Ö","Ø","Ù","Ú",
               "Û","Ü","Ý","Þ">>

\* The lower-case letter of each upper-case letter, and the converse.
LowerOf == [c \in {UpperCase[i] : i \in 1..Len(UpperCase)} |->
               LowerCase[CHOOSE i \in 1..Len(UpperCase) : UpperCase[i] = c]]
UpperOf == [c \in {LowerCase[i] : i \in 1..Len(LowerCase)} |->
               UpperCase[CHOOSE i \in 1..Len(LowerCase) : LowerCase[i] = c]]

\* String.prototype.toLowerCase, one character: a letter of Latin-1, or one
\* of the letters beyond Latin-1 that upper-casing a letter of Latin-1 gives,
\* the capital Y with diaeresis U+0178 and the capital mu U+039C, whose
\* lower case is the Greek small mu U+03BC and not the micro sign.
ToLowerChar(c) ==
    IF c \in DOMAIN LowerOf THEN LowerOf[c]
    ELSE IF c = "\\u0178" THEN "ÿ"
    ELSE IF c = "\\u039c" THEN "\\u03bc"
    ELSE c

\* String.prototype.toUpperCase, one character: the result is a string,
\* "SS" for the sharp s, and for the y with diaeresis, the micro sign and
\* the small mu a letter beyond Latin-1.
ToUpperChar(c) ==
    IF c \in DOMAIN UpperOf THEN <<UpperOf[c]>>
    ELSE IF c = "ß" THEN <<"S", "S">>
    ELSE IF c = "ÿ" THEN <<"\\u0178">>
    ELSE IF c \in {"µ", "\\u03bc"} THEN <<"\\u039c">>
    ELSE <<c>>

toLowerCase(s) == [i \in 1..Len(s) |-> ToLowerChar(s[i])]

\* Index of the first character at or after q that is not in class cls
\* (Len(s) + 1 when the run reaches the end): a greedy cls+ from q.
RECURSIVE RunEnd(_, _, _)
RunEnd(s, q, cls) ==
    IF q <= Len(s) /\ s[q] \in cls THEN RunEnd(s, q + 1, cls) ELSE q

RECURSIVE TrimStart(_)
TrimStart(s) ==
    IF s # <<>> /\ Head(s) \in Whitespace THEN TrimStart(Tail(s)) ELSE s

RECURSIVE TrimEnd(_)
TrimEnd(s) ==
    IF s # <<>> /\ s[Len(s)] \in Whitespace
    THEN TrimEnd(SubSeq(s, 1, Len(s) - 1))
    ELSE s

\* String.prototype.trim
trim(s) == TrimEnd(TrimStart(s))

\* Variant of CollapseWhitespace: the runs of whitespace are left as they are.
CollapseWhitespaceKept(s) == s

\* s.replace(/\s+/g, ' '): every run of whitespace becomes one space.
RECURSIVE CollapseWhitespace(_)
CollapseWhitespace(s) ==
    IF s = <<>> THEN <<>>
    ELSE IF Head(s) \in Whitespace
         THEN <<" ">> \o CollapseWhitespace(SubSeq(s, RunEnd(s, 1, Whitespace), Len(s)))
         ELSE <<Head(s)>> \o CollapseWhitespace(Tail(s))

\* Array.prototype.join: the strings of a list with sep between them.
RECURSIVE join(_, _)
join(parts, sep) ==
    IF parts = <<>> THEN <<>>
    ELSE IF Len(parts) = 1 THEN parts[1]
    ELSE parts[1] \o sep \o join(Tail(parts), sep)

\* Array.prototype.filter with a length predicate: keeps the strings whose
\* length (after trimming, when trimmed is TRUE) is at least n.
RECURSIVE FilterByLength(_, _, _)
FilterByLength(xs, n, trimmed) ==
    IF xs = <<>> THEN <<>>
    ELSE LET x == Head(xs)
             k == IF trimmed THEN Len(trim(x)) ELSE Len(x)
         IN  (IF k >= n THEN <<x>> ELSE <<>>) \o FilterByLength(Tail(xs), n, trimmed)

\* ------------------------------------------------------- regular expressions

\* The three patterns String.prototype.split is called with.
ReSentence == "([.!?]+(?:\\s+|$|\\n))"
ReFallback == "[.!?]+\\s+"
ReWord     == "[_\\s]+"

\* Sticky match of pattern re at index q of s: the index after the match, or
\* 0 when the pattern does not match there.  Every pattern starts with a
\* greedy character class; giving characters back never helps, because what
\* must follow the run is outside the class.
MatchEnd(s, q, re) ==
    IF re = ReWord
    THEN LET e == RunEnd(s, q, {"_"} \cup Whitespace) IN IF e = q THEN 0 ELSE e
    ELSE LET e == RunEnd(s, q, Punctuation) IN
         IF e = q THEN 0
         ELSE IF e <= Len(s) /\ s[e] \in Whitespace THEN RunEnd(s, e, Whitespace)
         ELSE IF re = ReSentence /\ e > Len(s) THEN e
         ELSE 0

\* String.prototype.split(re) from piece start p, scanning at q.  The
\* sentence pattern is one capturing group around the whole match, so the
\* separator itself is spliced into the output; the others drop it.
RECURSIVE SplitFrom(_, _, _, _)
SplitFrom(s, p, q, re) ==
    IF q > Len(s) THEN <<SubSeq(s, p, Len(s))>>
    ELSE LET e == MatchEnd(s, q, re) IN
         IF e = 0 \/ e = p THEN SplitFrom(s, p, q + 1, re)
         ELSE <<SubSeq(s, p, q - 1)>>
              \o (IF re = ReSentence THEN <<SubSeq(s, q, e - 1)>> ELSE <<>>)
              \o SplitFrom(s, e, e, re)

split(s, re) == SplitFrom(s, 1, 1, re)

\* /^[.!?]+$/.test(s)
IsPunctuationOnly(s) == s # <<>> /\ \A i \in 1..Len(s) : s[i] \in Punctuation

\* ---------------------------------------------------------------- labels

Str_Unknown  == <<"U","n","k","n","o","w","n">>
Str_Biased   == <<"B","i","a","s","e","d">>
Str_Unbiased == <<"U","n","b","i","a","s","e","d">>
Str_label_1  == <<"l","a","b","e","l","_","1">>
Str_label_0  == <<"l","a","b","e","l","_","0">>
Str_biased   == <<"b","i","a","s","e","d">>
Str_bias     == <<"b","i","a","s">>
Str_neutral  == <<"n","e","u","t","r","a","l">>
Str_unbiased == <<"u","n","b","i","a","s","e","d">>

\* Variant of Capitalize: the upper-cased first character is put in front of
\* the whole word, as without the slice(1).
CapitalizeWithoutSlice(word) ==
    IF word = <<>> THEN <<>> ELSE ToUpperChar(Head(word)) \o word

\* word.charAt(0).toUpperCase() + word.slice(1)
Capitalize(word) ==
    IF word = <<>> THEN <<>> ELSE ToUpperChar(Head(word)) \o Tail(word)

friendlyLabel(label) ==
    IF label = <<>> THEN Str_Unknown
    ELSE LET normalized == toLowerCase(label) IN
         IF normalized \in {Str_label_1, Str_biased, Str_bias} THEN Str_Biased
         ELSE IF normalized \in {Str_label_0, Str_neutral, Str_unbiased} THEN Str_Unbiased
         ELSE LET words == split(label, ReWord) IN
              join([i \in 1..Len(words) |-> Capitalize(words[i])], <<" ">>)

\* --------------------------------------------------------- sentence splitter

\* Shortest fragment kept as a sentence.
MinSentenceLen == 3

\* The recombination loop over the trimmed, non-empty split pieces.
RECURSIVE Recombine(_, _, _)
Recombine(sentences, i, result) ==
    IF i > Len(sentences) THEN result
    ELSE LET current == sentences[i] IN
         IF IsPunctuationOnly(current)
         THEN Recombine(sentences, i + 1,
                        IF result # <<>>
                        THEN [result EXCEPT ![Len(result)] = @ \o current]
                        ELSE result)
         ELSE IF i + 1 <= Len(sentences) /\ IsPunctuationOnly(sentences[i + 1])
              THEN Recombine(sentences, i + 2, Append(result, current \o sentences[i + 1]))
              ELSE Recombine(sentences, i + 1, Append(result, current))

TrimAll(xs) == [i \in 1..Len(xs) |-> trim(xs[i])]

\* const cleaned = text.trim().replace(/\s+/g, ' ')
Cleaned(text) == CollapseWhitespace(trim(text))

\* The main path: split with the separators kept, recombine, drop the short
\* fragments.
MainSentences(cleaned) ==
    LET sentences == FilterByLength(TrimAll(split(cleaned, ReSentence)), 1, FALSE)
        result    == Recombine(sentences, 1, <<>>)
    IN  FilterByLength(result, MinSentenceLen, TRUE)

\* Variant of FallbackSentences: only the empty pieces are dropped.
FallbackSentencesNonEmpty(cleaned) ==
    FilterByLength(TrimAll(split(cleaned, ReFallback)), 1, FALSE)

\* The fallback path, the simpler split taken when the main path leaves
\* nothing.
FallbackSentences(cleaned) ==
    FilterByLength(TrimAll(split(cleaned, ReFallback)), MinSentenceLen, FALSE)

splitIntoSentences(text) ==
    LET cleaned  == Cleaned(text)
        filtered == MainSentences(cleaned)
    IN  IF Len(filtered) = 0 THEN FallbackSentences(cleaned) ELSE filtered


\* ------------------------------------------------------- classifier replies

DETECTOR_MODEL == "himel7/bias-detector"
TYPE_MODEL     == "maximuspowers/bias-type-classifier"

\* Scores are thousandths; Threshold is the 0.5 of `score > 0.5`.
Threshold == 500

Str_LABEL_1     == <<"L","A","B","E","L","_","1">>
Str_Bias        == <<"B","i","a","s">>
Str_biased_sp   == <<"b","i","a","s","e","d"," ">>
Str_framing     == <<"f","r","a","m","i","n","g">>
Str_gender_bias == <<"g","e","n","d","e","r","_","b","i","a","s">>
Str_Framing     == <<"F","r","a","m","i","n","g">>
Str_Gender_Bias == <<"G","e","n","d","e","r"," ","B","i","a","s">>

\* Labels and scores the hosted detector may answer with.
DetectorLabels == {Str_label_1, Str_LABEL_1, Str_Bias, Str_label_0, Str_neutral,
                   Str_biased_sp, <<>>}
DetectorScores == {500, 501, 920}

\* Labels and scores the hosted type classifier may answer with.
TypeLabels == {Str_framing, Str_gender_bias}
TypeScores == {800}

\* A parsed response body (the value of parseJsonSafe): null for an empty
\* body, a string for a body that is not JSON, else the JSON value.  An
\* object lists the fields it has; `label` is in fields only when it is a
\* string, `score` only when it is a number.
DataNull == [type |-> "null"]
DataString(str) == [type |-> "string", str |-> str]
DataObject(fields, label, score, error) ==
    [type |-> "object", fields |-> fields, label |-> label, score |-> score, error |-> error]
DataArray(items) == [type |-> "array", items |-> items]

Prediction(label, score) == DataObject({"label", "score"}, label, score, <<>>)

\* What fetch resolves to: a rejected promise (transport failure) or a
\* response with its ok flag and parsed body.
FetchRejected == [rejected |-> TRUE]
FetchResponse(ok, data) == [rejected |-> FALSE, ok |-> ok, data |-> data]

Str_overloaded == <<"b","u","s","y">>

\* Replies that are not a classification, whatever the model.
BadReplies ==
    { FetchRejected,
      FetchResponse(FALSE, DataObject({"error"}, <<>>, 0, Str_overloaded)),
      FetchResponse(FALSE, DataString(Str_overloaded)),
      FetchResponse(FALSE, DataString(<<" ">>)),
      FetchResponse(FALSE, DataNull),
      FetchResponse(FALSE, Prediction(Str_label_1, 920)),
      FetchResponse(TRUE, DataNull),
      FetchResponse(TRUE, DataString(Str_overloaded)),
      FetchResponse(TRUE, DataArray(<<>>)),
      FetchResponse(TRUE, DataArray(<<DataArray(<<Prediction(Str_label_1, 920)>>)>>)),
      FetchResponse(TRUE, DataObject({"label"}, Str_label_1, 0, <<>>)),
      FetchResponse(TRUE, DataObject({"score"}, <<>>, 920, <<>>)) }

GoodReplies(labels, scores) ==
    { FetchResponse(TRUE, Prediction(l, sc)) : l \in labels, sc \in scores }
    \cup { FetchResponse(TRUE, DataArray(<<Prediction(l, sc)>>)) : l \in labels, sc \in scores }
    \cup { FetchResponse(TRUE, DataArray(<<Prediction(l, sc), Prediction(Str_Unknown, 80)>>)) :
               l \in labels, sc \in scores }

\* A reply the client takes as a classification although its score is no
\* probability: `typeof prediction.score === 'number'` holds for 1.7 as for
\* any other number.
OutOfRangeScore == 1700

OutOfRangeReplies == {FetchResponse(TRUE, DataArray(<<Prediction(Str_label_0, OutOfRangeScore)>>))}

\* The replies of the type classifier that are not a classification: a
\* transport failure, a failing status, an empty body.
TypeBadReplies ==
    { FetchRejected,
      FetchResponse(FALSE, DataObject({"error"}, <<>>, 0, Str_overloaded)),
      FetchResponse(TRUE, DataNull) }

Replies(model) ==
    IF model = DETECTOR_MODEL
    THEN BadReplies \cup GoodReplies(DetectorLabels, DetectorScores) \cup OutOfRangeReplies
    ELSE TypeBadReplies \cup GoodReplies(TypeLabels, TypeScores)

\* ------------------------------------------------------ classification client

\* An Error's message: a literal of the source, or text taken from a reply.
Message(literal, taken) == [literal |-> literal, taken |-> taken]

Thrown(message) == [kind |-> "throw", message |-> message]
NoClassification == [kind |-> "null"]
Classification(label, score) == [kind |-> "ok", label |-> label, score |-> score]

\* Variant of FailureMessage: a string body is the message even when blank.
FailureMessageAnyString(data) ==
    IF data.type = "object" /\ "error" \in data.fields
    THEN Message("", data.error)
    ELSE IF data.type = "string"
         THEN Message("", data.str)
         ELSE Message("Hugging Face inference request failed.", <<>>)

\* The message runClassification throws for a reply whose status is failing.
FailureMessage(data) ==
    IF data.type = "object" /\ "error" \in data.fields
    THEN Message("", data.error)
    ELSE IF data.type = "string" /\ Len(trim(data.str)) > 0
         THEN Message("", data.str)
         ELSE Message("Hugging Face inference request failed.", <<>>)

\* Variant of runClassification: the body is taken as the prediction as it
\* is, an array is not unwrapped.
runClassificationObjectOnly(reply) ==
    IF reply.rejected THEN Thrown(Message("fetch failed", <<>>))
    ELSE LET data == reply.data IN
         IF ~reply.ok THEN Thrown(FailureMessage(data))
         ELSE IF data.type # "object" THEN NoClassification
         ELSE IF "label" \notin data.fields \/ "score" \notin data.fields
              THEN NoClassification
              ELSE Classification(data.label, data.score)

\* runClassification from the point fetch settles: what the caller's await
\* yields (a classification, null) or throws.
runClassification(reply) ==
    IF reply.rejected THEN Thrown(Message("fetch failed", <<>>))
    ELSE LET data == reply.data IN
         IF ~reply.ok THEN Thrown(FailureMessage(data))
         ELSE LET isArray    == data.type = "array"
                  missing    == isArray /\ Len(data.items) = 0
                  prediction == IF isArray /\ ~missing THEN data.items[1] ELSE data
              IN  IF missing \/ prediction.type # "object" THEN NoClassification
                  ELSE IF "label" \notin prediction.fields \/ "score" \notin prediction.fields
                       THEN NoClassification
                       ELSE Classification(prediction.label, prediction.score)

\* ------------------------------------------------------------ sentence analyzer

\* Variant of isBiased: the friendly label is trimmed before the comparison.
isBiasedTrimmed(biasDetection) ==
    \/ toLowerCase(biasDetection.label) = Str_label_1
    \/ trim(toLowerCase(friendlyLabel(biasDetection.label))) = Str_biased

\* const isBiased = ...
isBiased(biasDetection) ==
    \/ toLowerCase(biasDetection.label) = Str_label_1
    \/ toLowerCase(friendlyLabel(biasDetection.label)) = Str_biased

\* Variant of NeedsTypeCall: the score is not looked at.
NeedsTypeCallAnyScore(biasDetection) == isBiased(biasDetection)

\* The guard of the type-classification call.
NeedsTypeCall(biasDetection) ==
    isBiased(biasDetection) /\ biasDetection.score > Threshold

NoBiasType == [present |-> FALSE]

\* biasType after the type call settled with typeResult (thrown: the catch).
BiasTypeOf(typeResult) ==
    IF typeResult.kind = "ok"
    THEN [present |-> TRUE, label |-> friendlyLabel(typeResult.label), score |-> typeResult.score]
    ELSE NoBiasType

\* The SentenceAnalysis analyzeSentence returns.
SentenceAnalysis(sentence, biasDetection, biasType) ==
    [ sentence      |-> sentence,
      biasDetection |-> [ label         |-> biasDetection.label,
                          friendlyLabel |-> friendlyLabel(biasDetection.label),
                          score         |-> biasDetection.score ],
      biasType      |-> biasType ]

\* ------------------------------------------------------------ double numbers

\* A JavaScript number is an IEEE 754 double: a significand of at most 53
\* bits times a power of two.  The significand does not fit an integer of
\* the checker, so it is kept as a sequence of 15-bit limbs, the lowest
\* first, without leading zero limbs; <<>> is 0.
Limb == 2^15

\* Pow2[b + 1] is 2^b.
Pow2 == <<1, 2, 4, 8, 16, 32, 64, 128, 256, 512, 1024, 2048, 4096, 8192, 16384>>

\* The limbs without leading zero limbs.
RECURSIVE BigNorm(_)
BigNorm(x) ==
    IF x # <<>> /\ x[Len(x)] = 0 THEN BigNorm(SubSeq(x, 1, Len(x) - 1)) ELSE x

RECURSIVE BigFromInt(_)
BigFromInt(n) == IF n = 0 THEN <<>> ELSE <<n % Limb>> \o BigFromInt(n \div Limb)

RECURSIVE BigToInt(_)
BigToInt(x) == IF x = <<>> THEN 0 ELSE Head(x) + Limb * BigToInt(Tail(x))

RECURSIVE BigAddCarry(_, _, _)
BigAddCarry(x, y, carry) ==
    IF x = <<>> /\ y = <<>> THEN (IF carry = 0 THEN <<>> ELSE <<carry>>)
    ELSE LET a == IF x = <<>> THEN 0 ELSE Head(x)
             b == IF y = <<>> THEN 0 ELSE Head(y)
             v == a + b + carry
         IN  <<v % Limb>> \o BigAddCarry(IF x = <<>> THEN x ELSE Tail(x),
                                         IF y = <<>> THEN y ELSE Tail(y), v \div Limb)

BigAdd(x, y) == BigAddCarry(x, y, 0)

\* x * c for 0 < c < Limb.
RECURSIVE BigMulCarry(_, _, _)
BigMulCarry(x, c, carry) ==
    IF x = <<>> THEN (IF carry = 0 THEN <<>> ELSE <<carry>>)
    ELSE LET v == Head(x) * c + carry
         IN  <<v % Limb>> \o BigMulCarry(Tail(x), c, v \div Limb)

BigMul(x, c) == BigMulCarry(x, c, 0)

\* Quotient and remainder of x by d, for 0 < d < Limb.
RECURSIVE BigDivMod(_, _)
BigDivMod(x, d) ==
    IF x = <<>> THEN [q |-> <<>>, r |-> 0]
    ELSE LET high == BigDivMod(Tail(x), d)
             cur  == high.r * Limb + Head(x)
         IN  [q |-> <<cur \div d>> \o high.q, r |-> cur % d]

\* The number of bits of a limb.
BitsOfInt(n) ==
    IF n < 256
    THEN (IF n < 16 THEN (IF n < 4 THEN (IF n < 2 THEN n ELSE 2) ELSE (IF n < 8 THEN 3 ELSE 4))
          ELSE (IF n < 64 THEN (IF n < 32 THEN 5 ELSE 6) ELSE (IF n < 128 THEN 7 ELSE 8)))
    ELSE (IF n < 4096 THEN (IF n < 1024 THEN (IF n < 512 THEN 9 ELSE 10)
                            ELSE (IF n < 2048 THEN 11 ELSE 12))
          ELSE (IF n < 16384 THEN (IF n < 8192 THEN 13 ELSE 14) ELSE 15))

\* The number of bits of x.
BitLen(x) == IF x = <<>> THEN 0 ELSE 15 * (Len(x) - 1) + BitsOfInt(x[Len(x)])

\* x * 2^k
BigShl(x, k) ==
    [i \in 1..(k \div 15) |-> 0]
        \o (IF k % 15 = 0 THEN x ELSE BigMul(x, Pow2[(k % 15) + 1]))

\* x \div 2^k
BigShr(x, k) ==
    LET rest == SubSeq(x, (k \div 15) + 1, Len(x))
    IN  IF k % 15 = 0 THEN rest ELSE BigNorm(BigDivMod(rest, Pow2[(k % 15) + 1]).q)

\* Bit k of x, the lowest being bit 0.
BigBit(x, k) ==
    IF k \div 15 >= Len(x) THEN 0 ELSE (x[(k \div 15) + 1] \div Pow2[(k % 15) + 1]) % 2

\* Whether a bit of x below bit k is set.
BigAnyBelow(x, k) ==
    \E i \in 1..Len(x) :
        \/ i <= k \div 15 /\ x[i] # 0
        \/ i = (k \div 15) + 1 /\ x[i] % Pow2[(k % 15) + 1] # 0

BigIsOdd(x) == x # <<>> /\ Head(x) % 2 = 1

\* A double: m * 2^e with a significand m of at most 53 bits.
Zero == [m |-> <<>>, e |-> 0]

\* The double nearest to big * 2^e, plus a fraction of its last bit when
\* sticky: round to nearest, ties to even.
RoundToDouble(big, e, sticky) ==
    LET x == BigNorm(big)
        s == BitLen(x) - 53
    IN  IF x = <<>> THEN Zero
        ELSE IF s <= 0 THEN [m |-> x, e |-> e]
        ELSE LET q  == BigShr(x, s)
                 up == /\ BigBit(x, s - 1) = 1
                       /\ (sticky \/ BigIsOdd(q) \/ BigAnyBelow(x, s - 1))
                 m  == IF up THEN BigAdd(q, <<1>>) ELSE q
             IN  IF BitLen(m) > 53 THEN [m |-> BigShr(m, 1), e |-> e + s + 1]
                 ELSE [m |-> m, e |-> e + s]

\* The double of an integer.
Number(n) == RoundToDouble(BigFromInt(n), 0, FALSE)

\* The double a decimal with three fraction digits is parsed to, from its
\* thousandths: 501 is 0.501.
Thousandths(k) ==
    LET d == BigDivMod(BigShl(BigFromInt(k), 75), 1000)
    IN  RoundToDouble(d.q, -75, d.r # 0)

\* prediction.score as JSON.parse read it, for the scores of the replies.
ScoreNumber ==
    [k \in DetectorScores \cup TypeScores \cup {Threshold, OutOfRangeScore} |-> Thousandths(k)]

\* a + b
Plus(a, b) ==
    IF a.m = <<>> THEN b
    ELSE IF b.m = <<>> THEN a
    ELSE LET e == IF a.e < b.e THEN a.e ELSE b.e
         IN  RoundToDouble(BigAdd(BigShl(a.m, a.e - e), BigShl(b.m, b.e - e)), e, FALSE)

\* a / n, for an integer 0 < n < Limb: the quotient is taken to more than
\* 54 bits before it is rounded.
DividedBy(a, n) ==
    LET k == 15 * ((84 - BitLen(a.m)) \div 15)
        d == BigDivMod(BigShl(a.m, k), n)
    IN  RoundToDouble(d.q, a.e - k, d.r # 0)

\* a * n, for an integer 0 < n < Limb.
Times(a, n) == RoundToDouble(BigMul(a.m, n), a.e, FALSE)

\* Math.floor(a), for a >= 0.
MathFloor(a) ==
    IF a.e >= 0 THEN BigToInt(BigShl(a.m, a.e)) ELSE BigToInt(BigShr(a.m, -a.e))

\* Math.round(a), for a >= 0: the nearest integer, a half goes up.
MathRound(a) ==
    IF a.e >= 0 THEN BigToInt(BigShl(a.m, a.e))
    ELSE BigToInt(BigShr(a.m, -a.e)) + BigBit(a.m, -a.e - 1)

\* ------------------------------------------------------------------ aggregator

\* Variant of Round: Math.floor in place of Math.round.
RoundDown(x, scale) == MathFloor(Times(x, scale))

\* Math.round(x * scale) / scale, as a number of 1/scale: Round(0.5005, 1000)
\* is 500, because 0.5005 * 1000 is the double 500.49999999999994.
Round(x, scale) == MathRound(Times(x, scale))

\* analyses.reduce((sum, a) => sum + a.biasDetection.score, 0)
RECURSIVE SumScores(_)
SumScores(analyses) ==
    IF analyses = <<>> THEN Zero
    ELSE Plus(SumScores(SubSeq(analyses, 1, Len(analyses) - 1)),
              ScoreNumber[analyses[Len(analyses)].biasDetection.score])

\* Variant of FilterBiased: the friendly label is compared without lower-casing.
RECURSIVE FilterBiasedCaseSensitive(_, _)
FilterBiasedCaseSensitive(analyses, withThreshold) ==
    IF analyses = <<>> THEN <<>>
    ELSE LET a    == Head(analyses)
             keep == /\ a.biasDetection.friendlyLabel = Str_biased
                     /\ (withThreshold => a.biasDetection.score > Threshold)
         IN  (IF keep THEN <<a>> ELSE <<>>)
             \o FilterBiasedCaseSensitive(Tail(analyses), withThreshold)

\* sentenceAnalyses.filter(...): the records a predicate on (friendlyLabel,
\* score) keeps; withThreshold adds `score > 0.5`.
RECURSIVE FilterBiased(_, _)
FilterBiased(analyses, withThreshold) ==
    IF analyses = <<>> THEN <<>>
    ELSE LET a    == Head(analyses)
             keep == /\ toLowerCase(a.biasDetection.friendlyLabel) = Str_biased
                     /\ (withThreshold => a.biasDetection.score > Threshold)
         IN  (IF keep THEN <<a>> ELSE <<>>) \o FilterBiased(Tail(analyses), withThreshold)

\* biasTypeCounts: for each type label present, the number of records with it.
CountBiasTypes(analyses) ==
    LET typed  == {i \in 1..Len(analyses) : analyses[i].biasType.present}
        labels == {analyses[i].biasType.label : i \in typed}
    IN  [l \in labels |-> Cardinality({i \in typed : analyses[i].biasType.label = l})]

\* The statistics object of a 200 response.  biasPercentage is in tenths of
\* a percent and the averages in thousandths, as the Math.round calls leave
\* them; the quotients and products before the rounding are doubles.
StatisticsFor(totalSentences, analyses) ==
    LET biasedSentences   == Len(FilterBiased(analyses, TRUE))
        unbiasedSentences == totalSentences - biasedSentences
    IN  [ totalSentences    |-> totalSentences,
          biasedSentences   |-> biasedSentences,
          unbiasedSentences |-> unbiasedSentences,
          biasPercentage    |-> Round(Times(DividedBy(Number(biasedSentences), totalSentences),
                                            100), 10),
          avgBiasScore      |-> Round(DividedBy(SumScores(analyses), totalSentences), 1000),
          avgBiasedScore    |-> IF biasedSentences > 0
                                THEN Round(DividedBy(SumScores(FilterBiased(analyses, FALSE)),
                                                     biasedSentences), 1000)
                                ELSE 0,
          biasTypeCounts    |-> CountBiasTypes(analyses) ]

\* const totalSentences = sentenceAnalyses.length
Statistics(analyses) == StatisticsFor(Len(analyses), analyses)

\* ------------------------------------------------------------ request bodies

\* Every text of at most n parts.
RECURSIVE TextsOf(_)
TextsOf(n) ==
    IF n = 0 THEN {<<>>}
    ELSE LET shorter == TextsOf(n - 1)
         IN  shorter \cup {t \o part : t \in shorter, part \in TextParts}

\* Texts whose whitespace is not the blank: two sentences on two lines of a
\* file with CR LF line ends, a line end alone, a no-break space alone.
TextsWithOtherSpaces ==
    { <<"a", "b", ".", "\r", "\n", "a", "b", ".">>, <<"\r", "\n">>, <<" ">> }

Texts == TextsOf(MaxTextParts) \cup TextsWithOtherSpaces

\* The bodies that are not JSON: some characters, nothing at all, an object
\* that is cut off.
RawBodies == {"not json", "", "{\"text\":"}

\* What req.json() yields: it rejects for a body that is not JSON; the JSON
\* value is null or, as an object, has a text field or not, and the field
\* holds a string or, as in {"text": 7}, a value of another type.
BodyNotJson(raw) == [json |-> FALSE, raw |-> raw]
BodyNull         == [json |-> TRUE, object |-> FALSE, hasText |-> FALSE]
BodyWithoutText  == [json |-> TRUE, object |-> TRUE, hasText |-> FALSE]
BodyWithText(t)  == [json |-> TRUE, object |-> TRUE, hasText |-> TRUE, string |-> TRUE, text |-> t]
BodyWithNumber   == [json |-> TRUE, object |-> TRUE, hasText |-> TRUE, string |-> FALSE,
                     text |-> <<"7">>]

Bodies ==
    {BodyNotJson(raw) : raw \in RawBodies}
        \cup {BodyNull, BodyWithoutText, BodyWithNumber}
        \cup {BodyWithText(t) : t \in Texts}

\* ---------------------------------------------------------------------- state

VARIABLES
    HF_TOKEN,          \* TRUE when process.env.HUGGINGFACE_TOKEN is a non-empty string
    pc,                \* where the POST handler stands
    body,              \* the request body
    text,              \* the destructured text ("" when the field is missing)
    sentences,         \* the splitter's output
    idx,               \* position of the for-of loop in sentences, from 1
    biasDetection,     \* analyzeSentence's detection result while the type call is awaited
    sentenceAnalyses,  \* the records pushed so far
    response,          \* the response returned, NoResponse before
    outbound,          \* history of the outbound calls: what was sent and what came back
    reply,             \* what fetch resolved to, while runClassification reads it
    settled,           \* what an awaited call settled with, until its caller resumes
    env,               \* process.env, but for the token: the endpoint settings
    parked,            \* the locals of a second request, suspended at an await
    page,              \* the state of the Page component (page.tsx)
    column,            \* the state of each ChatColumn, by columnIndex
    biasRuns,          \* the runBias calls of the latest instance of each column
    analysedLast,      \* history: the text analysed last for each slot since the page loaded
    localStorage       \* the browser's local storage

\* The browser side.
browser == <<page, column, biasRuns, analysedLast, localStorage>>

\* What no step of the handler writes, apart from the token.
outside == <<env, parked, browser>>

\* The server side.
server == <<HF_TOKEN, pc, body, text, sentences, idx, biasDetection, sentenceAnalyses,
            response, outbound, reply, settled, env, parked>>

vars == <<HF_TOKEN, pc, body, text, sentences, idx, biasDetection, sentenceAnalyses,
          response, outbound, reply, settled, outside>>

NoResponse == [status |-> 0]

ErrorResponse(status, error) == [status |-> status, error |-> error]

ReportResponse(t, analyses) ==
    [status |-> 200, text |-> t, sentences |-> analyses, statistics |-> Statistics(analyses)]

NoDetection == [kind |-> "none"]

NoReply == [pending |-> TRUE]

\* What runClassification or analyzeSentence settled with while the function
\* that awaits it has not resumed: runClassification returns a classification
\* or null, analyzeSentence returns a record, both may throw.
NoSettlement == [kind |-> "none"]
Returned(analysis) == [kind |-> "returned", analysis |-> analysis]

\* An environment variable: not set, or set to a string.
Unset == [set |-> FALSE, value |-> <<>>]
SetTo(value) == [set |-> TRUE, value |-> value]

\* The environment of a deployment that sets none of the endpoint variables.
DefaultEnv ==
    [ HUGGINGFACE_INFERENCE_BASE_URL |-> Unset,
      DETECTOR_ENDPOINT              |-> Unset,
      TYPE_CLASSIFIER_ENDPOINT       |-> Unset ]

\* 'https://api-inference.huggingface.co/models'
DefaultBaseUrl ==
    <<"h","t","t","p","s",":","/","/","a","p","i","-","i","n","f","e","r","e","n","c","e",".",
      "h","u","g","g","i","n","g","f","a","c","e",".","c","o","/","m","o","d","e","l","s">>

\* s.replace(/\/+$/, ''): the slashes at the end are dropped.
RECURSIVE StripTrailingSlashes(_)
StripTrailingSlashes(s) ==
    IF s # <<>> /\ s[Len(s)] = "/" THEN StripTrailingSlashes(SubSeq(s, 1, Len(s) - 1)) ELSE s

\* const HF_BASE_URL = process.env.HUGGINGFACE_INFERENCE_BASE_URL?.replace(...) ?? '...'
HF_BASE_URL ==
    IF env.HUGGINGFACE_INFERENCE_BASE_URL.set
    THEN StripTrailingSlashes(env.HUGGINGFACE_INFERENCE_BASE_URL.value)
    ELSE DefaultBaseUrl

\* const url = `${HF_BASE_URL.replace(/\/+$/, '')}/${model}`: the base URL,
\* a slash and the name of the model (kept as one piece).
UrlOf(model) == StripTrailingSlashes(HF_BASE_URL) \o <<"/", model>>

CallEvent(model, i)           == [event |-> "call", model |-> model, url |-> UrlOf(model),
                                  sentence |-> i]
SettleEvent(model, i, result) == [event |-> "settle", model |-> model, sentence |-> i,
                                  result |-> result]

\* The locals of the invocation of POST that is running.
Locals ==
    [ pc |-> pc, body |-> body, text |-> text, sentences |-> sentences, idx |-> idx,
      biasDetection |-> biasDetection, sentenceAnalyses |-> sentenceAnalyses,
      response |-> response, outbound |-> outbound, reply |-> reply, settled |-> settled ]

\* The locals of an invocation that has not begun.
NotBegun ==
    [ pc |-> "idle", body |-> BodyNotJson(""), text |-> <<>>, sentences |-> <<>>, idx |-> 1,
      biasDetection |-> NoDetection, sentenceAnalyses |-> <<>>,
      response |-> NoResponse, outbound |-> <<>>, reply |-> NoReply,
      settled |-> NoSettlement ]

\* -------------------------------------------------------------- the page's data

\* const AVAILABLE_MODELS: the ids of the models on offer.
AVAILABLE_MODELS ==
    { "google/gemini-2.5-flash-lite", "deepseek/deepseek-v3.1", "minimax/minimax-m2",
      "mistral/ministral-3b", "meituan/longcat-flash-chat", "openai/text-embedding-3-small",
      "meta/llama-3.1-8b" }

\* const DEFAULT_MODELS, by columnIndex.
DEFAULT_MODELS == [c \in {0, 1} |-> IF c = 0 THEN "minimax/minimax-m2"
                                    ELSE "meituan/longcat-flash-chat"]

Columns == {0, 1}

\* BiasSlotState of a slot no analysis has touched.
IdleSlot == [status |-> "idle"]

\* A ChatColumn as its first render leaves it: useChat without messages,
\* both slots idle, nothing remembered as analysed.
FreshColumn ==
    [ messages         |-> <<>>,
      status           |-> "ready",
      lastAnalyzedText |-> [prompt |-> <<>>, response |-> <<>>],
      biasState        |-> [prompt |-> IdleSlot, response |-> IdleSlot] ]

\* The Page before its effects have run: default models, nothing hydrated,
\* no active chat, an empty composer.
FreshPage ==
    [ selectedModels |-> DEFAULT_MODELS,
      modelsHydrated |-> FALSE,
      chatsHydrated  |-> FALSE,
      activeChatId   |-> "",
      prompt         |-> <<>> ]

\* What localStorage.getItem yields for a key that was never set.
NoItem == [kind |-> "null"]

\* No text was analysed for a slot of a column.
NoneAnalysed == [c \in Columns |-> [prompt |-> <<>>, response |-> <<>>]]

\* A browser that has never loaded the page: nothing is stored.
BrowserAtRest ==
    /\ page = FreshPage
    /\ column = [c \in Columns |-> FreshColumn]
    /\ biasRuns = <<>>
    /\ analysedLast = NoneAnalysed
    /\ localStorage = [biascope_models_v1 |-> NoItem, biascope_messages_v1 |-> NoItem]

Init ==
    /\ BrowserAtRest
    /\ HF_TOKEN \in BOOLEAN
    /\ pc = "idle"
    /\ body = BodyNotJson("")
    /\ text = <<>>
    /\ sentences = <<>>
    /\ idx = 1
    /\ biasDetection = NoDetection
    /\ sentenceAnalyses = <<>>
    /\ response = NoResponse
    /\ outbound = <<>>
    /\ reply = NoReply
    /\ settled = NoSettlement
    /\ env = DefaultEnv
    /\ parked = NotBegun

\* The handler returns r.
Respond(r) ==
    /\ response' = r
    /\ pc' = "responded"

\* ------------------------------------------------------------------- the handler

\* A request arrives.
Receive ==
    /\ pc = "idle"
    /\ \E b \in Bodies : body' = b
    /\ pc' = "parse"
    /\ UNCHANGED <<outside, HF_TOKEN, text, sentences, idx, biasDetection, sentenceAnalyses,
                   response, outbound, reply, settled>>

\* The message of the SyntaxError req.json() rejects with, which JSON.parse
\* words after the body.
SyntaxErrorMessage(raw) ==
    CASE raw = "not json"    -> "Unexpected token 'o', \"not json\" is not valid JSON"
      [] raw = ""            -> "Unexpected end of JSON input"
      [] raw = "{\"text\":" -> "Unexpected end of JSON input"

\* The messages of the TypeErrors the handler's own statements throw: the
\* destructuring of null, and the call of trim on a text that has none.
DestructureErrorMessage ==
    "Cannot destructure property 'text' of '(intermediate value)' as it is null."
TypeErrorMessage == "text.trim is not a function"

\* Variant of ParseBody: without the outer try/catch the rejection leaves the
\* handler, which ends without a response of its own.
ParseBodyUncaught ==
    /\ pc = "parse"
    /\ IF ~body.json
       THEN /\ pc' = "responded"
            /\ UNCHANGED <<text, response>>
       ELSE IF ~body.object
       THEN /\ pc' = "responded"
            /\ UNCHANGED <<text, response>>
       ELSE /\ text' = IF body.hasText THEN body.text ELSE <<>>
            /\ pc' = "validate"
            /\ UNCHANGED response
    /\ UNCHANGED <<outside, HF_TOKEN, body, sentences, idx, biasDetection, sentenceAnalyses, outbound,
                   reply, settled>>

\* const { text } = await req.json(): a rejection, and the TypeError of
\* destructuring null, land in the outer catch, which answers 500 with
\* error.message.
ParseBody ==
    /\ pc = "parse"
    /\ IF ~body.json
       THEN /\ Respond(ErrorResponse(500, SyntaxErrorMessage(body.raw)))
            /\ UNCHANGED text
       ELSE IF ~body.object
       THEN /\ Respond(ErrorResponse(500, DestructureErrorMessage))
            /\ UNCHANGED text
       ELSE /\ text' = IF body.hasText THEN body.text ELSE <<>>
            /\ pc' = "validate"
            /\ UNCHANGED response
    /\ UNCHANGED <<outside, HF_TOKEN, body, sentences, idx, biasDetection, sentenceAnalyses, outbound, reply, settled>>

\* Variant of ValidateText: only `!text` is tested, the text is not trimmed
\* here (a text that is not a string still fails, at the trim before the
\* splitter).
ValidateTextUntrimmed ==
    /\ pc = "validate"
    /\ IF text = <<>>
       THEN Respond(ErrorResponse(400, "Text is required for bias analysis."))
       ELSE IF ~body.string
            THEN Respond(ErrorResponse(500, TypeErrorMessage))
            ELSE /\ pc' = "credential"
                 /\ UNCHANGED response
    /\ UNCHANGED <<outside, HF_TOKEN, body, text, sentences, idx, biasDetection, sentenceAnalyses,
                   outbound, reply, settled>>

\* Variant of ValidateText: the credential is looked at first, the text after.
ValidateTextAfterCredential ==
    /\ pc = "validate"
    /\ IF ~HF_TOKEN
       THEN Respond(ErrorResponse(500, "HUGGINGFACE_TOKEN is not configured on the server."))
       ELSE IF text = <<>>
            THEN Respond(ErrorResponse(400, "Text is required for bias analysis."))
            ELSE IF ~body.string
                 THEN Respond(ErrorResponse(500, TypeErrorMessage))
                 ELSE IF trim(text) = <<>>
                      THEN Respond(ErrorResponse(400, "Text is required for bias analysis."))
                      ELSE /\ pc' = "credential"
                           /\ UNCHANGED response
    /\ UNCHANGED <<outside, HF_TOKEN, body, text, sentences, idx, biasDetection, sentenceAnalyses,
                   outbound, reply, settled>>

\* if (!text || !text.trim()): a truthy text that is not a string has no
\* trim method, and the TypeError of the call lands in the outer catch.
ValidateText ==
    /\ pc = "validate"
    /\ IF text = <<>>
       THEN Respond(ErrorResponse(400, "Text is required for bias analysis."))
       ELSE IF ~body.string
            THEN Respond(ErrorResponse(500, TypeErrorMessage))
            ELSE IF trim(text) = <<>>
                 THEN Respond(ErrorResponse(400, "Text is required for bias analysis."))
                 ELSE /\ pc' = "credential"
                      /\ UNCHANGED response
    /\ UNCHANGED <<outside, HF_TOKEN, body, text, sentences, idx, biasDetection, sentenceAnalyses,
                   outbound, reply, settled>>

\* Variant of CheckCredential: the handler leaves the token check to
\* runClassification.
CheckCredentialSkipped ==
    /\ pc = "credential"
    /\ pc' = "segment"
    /\ UNCHANGED <<outside, HF_TOKEN, body, text, sentences, idx, biasDetection, sentenceAnalyses,
                   response, outbound, reply, settled>>

\* if (!HF_TOKEN)
CheckCredential ==
    /\ pc = "credential"
    /\ IF ~HF_TOKEN
       THEN Respond(ErrorResponse(500, "HUGGINGFACE_TOKEN is not configured on the server."))
       ELSE /\ pc' = "segment"
            /\ UNCHANGED response
    /\ UNCHANGED <<outside, HF_TOKEN, body, text, sentences, idx, biasDetection, sentenceAnalyses,
                   outbound, reply, settled>>

\* Variant of Segment: an empty result is not checked.
SegmentUnchecked ==
    /\ pc = "segment"
    /\ sentences' = splitIntoSentences(trim(text))
    /\ pc' = "analyze"
    /\ idx' = 1
    /\ UNCHANGED <<outside, HF_TOKEN, body, text, biasDetection, sentenceAnalyses, response, outbound, reply, settled>>

\* const sentences = splitIntoSentences(text.trim())
Segment ==
    /\ pc = "segment"
    /\ sentences' = splitIntoSentences(trim(text))
    /\ IF Len(sentences') = 0
       THEN Respond(ErrorResponse(400, "Could not extract sentences from text."))
       ELSE /\ pc' = "analyze"
            /\ UNCHANGED response
    /\ idx' = 1
    /\ UNCHANGED <<outside, HF_TOKEN, body, text, biasDetection, sentenceAnalyses, outbound, reply, settled>>

\* Variant of SentenceFails: a failed sentence ends the loop at once, as a
\* `break` in the catch would.
SentenceFailsEndingLoop ==
    /\ idx' = Len(sentences) + 1
    /\ pc' = "analyze"
    /\ UNCHANGED <<biasDetection, sentenceAnalyses, response>>

\* Variant of SentenceFails: the loop has no catch of its own, so the throw
\* reaches the handler's outer catch and ends the request.
SentenceFailsAborting ==
    /\ Respond(ErrorResponse(500, "Failed to detect bias in sentence"))
    /\ UNCHANGED <<idx, biasDetection, sentenceAnalyses>>

\* analyzeSentence threw: the loop's catch logs and goes on to the next
\* sentence.
SentenceFails ==
    /\ idx' = idx + 1
    /\ pc' = "analyze"
    /\ UNCHANGED <<biasDetection, sentenceAnalyses, response>>

\* Variant of SentenceSucceeds: the record is put at the front of the list,
\* as `unshift` in place of `push` would.
SentenceSucceedsUnshift(analysis) ==
    /\ sentenceAnalyses' = <<analysis>> \o sentenceAnalyses
    /\ idx' = idx + 1
    /\ pc' = "analyze"
    /\ UNCHANGED response

\* analyzeSentence returned analysis: it is pushed and the loop goes on.
SentenceSucceeds(analysis) ==
    /\ sentenceAnalyses' = Append(sentenceAnalyses, analysis)
    /\ idx' = idx + 1
    /\ pc' = "analyze"
    /\ UNCHANGED response

\* The classifier call an invocation stands in, by its position.
ModelAt(at) ==
    IF at \in {"awaitDetector", "readDetector", "parsedDetector", "classifiedDetector"}
    THEN DETECTOR_MODEL
    ELSE TYPE_MODEL

\* runClassification returns or throws result: its promise settles, and its
\* caller analyzeSentence stands at `await runClassification(...)` until the
\* event loop resumes it.  The history takes the outcome of the call.
Settle(model, result) ==
    /\ outbound' = Append(outbound, SettleEvent(model, idx, result))
    /\ settled' = result
    /\ pc' = IF model = DETECTOR_MODEL THEN "classifiedDetector" ELSE "classifiedType"

\* The loop takes the next sentence: POST calls analyzeSentence, which calls
\* runClassification for the detector, all in one go.  Without a token
\* runClassification throws at once (analyzeSentence stands at its await with
\* the rejection); else it sends the request and stands at `await fetch`.
CallDetector ==
    /\ pc = "analyze"
    /\ idx <= Len(sentences)
    /\ IF ~HF_TOKEN
       THEN /\ settled' = Thrown(Message("Missing HUGGINGFACE_TOKEN environment variable.",
                                         <<>>))
            /\ pc' = "classifiedDetector"
            /\ UNCHANGED outbound
       ELSE /\ outbound' = Append(outbound, CallEvent(DETECTOR_MODEL, idx))
            /\ pc' = "awaitDetector"
            /\ UNCHANGED settled
    /\ UNCHANGED <<outside, HF_TOKEN, body, text, sentences, idx, biasDetection,
                   sentenceAnalyses, response, reply>>

\* await fetch(url, ...) settles, for the detector or for the type model.  A
\* rejection leaves runClassification at once; a response is handed to
\* parseJsonSafe, which stands at `await response.text()`.
FetchSettles ==
    /\ pc \in {"awaitDetector", "awaitType"}
    /\ \E r \in Replies(ModelAt(pc)) :
           IF r.rejected
           THEN /\ Settle(ModelAt(pc), runClassification(r))
                /\ UNCHANGED reply
           ELSE /\ reply' = r
                /\ pc' = IF pc = "awaitDetector" THEN "readDetector" ELSE "readType"
                /\ UNCHANGED <<outbound, settled>>
    /\ UNCHANGED <<outside, HF_TOKEN, body, text, sentences, idx, biasDetection,
                   sentenceAnalyses, response>>

\* await response.text() settles: parseJsonSafe parses the body and returns,
\* and runClassification stands at `await parseJsonSafe(response)`.  (The
\* reply is kept by what its body parses to.)
BodyRead ==
    /\ pc \in {"readDetector", "readType"}
    /\ pc' = IF pc = "readDetector" THEN "parsedDetector" ELSE "parsedType"
    /\ UNCHANGED <<outside, HF_TOKEN, body, text, sentences, idx, biasDetection,
                   sentenceAnalyses, response, outbound, reply, settled>>

\* runClassification resumes with the parsed body, looks at the status and
\* at the prediction, and returns or throws.
Classifies ==
    /\ pc \in {"parsedDetector", "parsedType"}
    /\ Settle(ModelAt(pc), runClassification(reply))
    /\ reply' = NoReply
    /\ UNCHANGED <<outside, HF_TOKEN, body, text, sentences, idx, biasDetection,
                   sentenceAnalyses, response>>

\* analyzeSentence resumes at `await runClassification(DETECTOR_MODEL, ...)`.
\* A throw leaves it, and so does a null, as the Error it throws itself; a
\* biased result above the threshold sends the type call (the token is there,
\* the detector call was sent with it); any other result is returned in a
\* record without a type.  POST then stands at `await analyzeSentence(...)`.
DetectorReturns ==
    /\ pc = "classifiedDetector"
    /\ IF settled.kind = "throw"
       THEN /\ pc' = "analyzed"
            /\ UNCHANGED <<settled, outbound, biasDetection>>
       ELSE IF settled.kind = "null"
       THEN /\ settled' = Thrown(Message("Failed to detect bias in sentence", <<>>))
            /\ pc' = "analyzed"
            /\ UNCHANGED <<outbound, biasDetection>>
       ELSE IF NeedsTypeCall(settled)
       THEN /\ biasDetection' = settled
            /\ outbound' = Append(outbound, CallEvent(TYPE_MODEL, idx))
            /\ settled' = NoSettlement
            /\ pc' = "awaitType"
       ELSE /\ settled' = Returned(SentenceAnalysis(sentences[idx], settled, NoBiasType))
            /\ pc' = "analyzed"
            /\ UNCHANGED <<outbound, biasDetection>>
    /\ UNCHANGED <<outside, HF_TOKEN, body, text, sentences, idx, sentenceAnalyses, response,
                   reply>>

\* Variant of TypeReturns: the type call is not wrapped in a try/catch of its
\* own, so its throw leaves analyzeSentence and the sentence is skipped.
TypeReturnsUncaught ==
    /\ pc = "classifiedType"
    /\ settled' = IF settled.kind = "throw" THEN settled
                  ELSE Returned(SentenceAnalysis(sentences[idx], biasDetection,
                                                 BiasTypeOf(settled)))
    /\ biasDetection' = NoDetection
    /\ pc' = "analyzed"
    /\ UNCHANGED <<outside, HF_TOKEN, body, text, sentences, idx, sentenceAnalyses, response,
                   outbound, reply>>

\* analyzeSentence resumes at `await runClassification(TYPE_MODEL, ...)`: the
\* record is returned, with the type when the call yielded one (a throw is
\* caught and logged).
TypeReturns ==
    /\ pc = "classifiedType"
    /\ settled' = Returned(SentenceAnalysis(sentences[idx], biasDetection, BiasTypeOf(settled)))
    /\ biasDetection' = NoDetection
    /\ pc' = "analyzed"
    /\ UNCHANGED <<outside, HF_TOKEN, body, text, sentences, idx, sentenceAnalyses, response,
                   outbound, reply>>

\* POST resumes at `await analyzeSentence(sentence)`: the record is pushed,
\* or the loop's catch logs the throw, and the loop goes on.
AnalysisReturns ==
    /\ pc = "analyzed"
    /\ IF settled.kind = "throw"
       THEN SentenceFails
       ELSE /\ SentenceSucceeds(settled.analysis)
            /\ UNCHANGED biasDetection
    /\ settled' = NoSettlement
    /\ UNCHANGED <<outside, HF_TOKEN, body, text, sentences, outbound, reply>>

\* Variant of FinishLoop: the empty case is not checked before aggregating.
FinishLoopUnguarded ==
    /\ pc = "analyze"
    /\ idx > Len(sentences)
    /\ pc' = "aggregate"
    /\ UNCHANGED <<outside, HF_TOKEN, body, text, sentences, idx, biasDetection, sentenceAnalyses,
                   response, outbound, reply, settled>>

\* The loop is over: if (sentenceAnalyses.length === 0) return 502.
FinishLoop ==
    /\ pc = "analyze"
    /\ idx > Len(sentences)
    /\ IF Len(sentenceAnalyses) = 0
       THEN Respond(ErrorResponse(502, "Failed to analyze any sentences."))
       ELSE /\ pc' = "aggregate"
            /\ UNCHANGED response
    /\ UNCHANGED <<outside, HF_TOKEN, body, text, sentences, idx, biasDetection, sentenceAnalyses,
                   outbound, reply, settled>>

\* Variant of Aggregate: the statistics count the segmented sentences.
AggregateOverSegmented ==
    /\ pc = "aggregate"
    /\ Respond([status |-> 200, text |-> text, sentences |-> sentenceAnalyses,
                statistics |-> StatisticsFor(Len(sentences), sentenceAnalyses)])
    /\ UNCHANGED <<outside, HF_TOKEN, body, text, sentences, idx, biasDetection, sentenceAnalyses,
                   outbound, reply, settled>>

\* Calculate aggregate statistics and return the report.
Aggregate ==
    /\ pc = "aggregate"
    /\ Respond(ReportResponse(text, sentenceAnalyses))
    /\ UNCHANGED <<outside, HF_TOKEN, body, text, sentences, idx, biasDetection, sentenceAnalyses,
                   outbound, reply, settled>>

Next ==
    \/ Receive
    \/ ParseBody
    \/ ValidateText
    \/ CheckCredential
    \/ Segment
    \/ CallDetector
    \/ FetchSettles
    \/ BodyRead
    \/ Classifies
    \/ DetectorReturns
    \/ TypeReturns
    \/ AnalysisReturns
    \/ FinishLoop
    \/ Aggregate

Spec == Init /\ [][Next]_vars

\* The handler as far as segmentation: every request text meets the splitter.
NextSegmentation ==
    \/ Receive
    \/ ParseBody
    \/ ValidateText
    \/ CheckCredential
    \/ Segment

SegmentationSpec == Init /\ [][NextSegmentation]_vars

\* ----------------------------------------------------- the end of the loop

\* The handler at the end of its loop over a longer text than the requests
\* above carry: a text of LongTextSentences sentences, each analysed with
\* one of a few outcomes.
LongTextSentences == 3

RECURSIVE LongText(_)
LongText(n) ==
    IF n = 1 THEN <<"a","b",".">> ELSE <<"a","b","."," ">> \o LongText(n - 1)

\* What the detector call and the type call of one sentence came to.
DetectorOutcomes ==
    { runClassification(r) :
        r \in BadReplies \cup GoodReplies({Str_label_1, Str_label_0}, {Threshold, 920})
                \cup OutOfRangeReplies }
TypeOutcomes ==
    { runClassification(r) : r \in {FetchRejected} \cup GoodReplies(TypeLabels, TypeScores) }
NoTypeCall == [kind |-> "none"]

SentenceOutcomes ==
    { [detection |-> d, type |-> NoTypeCall] :
        d \in {o \in DetectorOutcomes : o.kind # "ok" \/ ~NeedsTypeCall(o)} }
    \cup { [detection |-> d, type |-> t] :
              d \in {o \in DetectorOutcomes : o.kind = "ok" /\ NeedsTypeCall(o)},
              t \in TypeOutcomes }

\* The records the loop has pushed after the outcomes from sentence i on.
RECURSIVE LoopRecords(_, _, _)
LoopRecords(sents, outcomes, i) ==
    IF i > Len(sents) THEN <<>>
    ELSE LET o == outcomes[i]
         IN  (IF o.detection.kind # "ok" THEN <<>>
              ELSE <<SentenceAnalysis(sents[i], o.detection,
                                      IF o.type = NoTypeCall THEN NoBiasType
                                      ELSE BiasTypeOf(o.type))>>)
             \o LoopRecords(sents, outcomes, i + 1)

\* The calls the loop has sent and seen settle from sentence i on.
RECURSIVE LoopHistory(_, _)
LoopHistory(outcomes, i) ==
    IF i > Len(outcomes) THEN <<>>
    ELSE LET o == outcomes[i]
         IN  <<CallEvent(DETECTOR_MODEL, i), SettleEvent(DETECTOR_MODEL, i, o.detection)>>
             \o (IF o.type = NoTypeCall THEN <<>>
                 ELSE <<CallEvent(TYPE_MODEL, i), SettleEvent(TYPE_MODEL, i, o.type)>>)
             \o LoopHistory(outcomes, i + 1)

InitAggregation ==
    /\ BrowserAtRest
    /\ HF_TOKEN = TRUE
    /\ body = BodyWithText(LongText(LongTextSentences))
    /\ text = body.text
    /\ sentences = splitIntoSentences(trim(text))
    /\ idx = Len(sentences) + 1
    /\ pc = "analyze"
    /\ biasDetection = NoDetection
    /\ response = NoResponse
    /\ reply = NoReply
    /\ settled = NoSettlement
    /\ env = DefaultEnv
    /\ parked = NotBegun
    /\ \E outcomes \in [1..LongTextSentences -> SentenceOutcomes] :
           /\ sentenceAnalyses = LoopRecords(sentences, outcomes, 1)
           /\ outbound = LoopHistory(outcomes, 1)

NextAggregation ==
    \/ FinishLoop
    \/ Aggregate

AggregationSpec == InitAggregation /\ [][NextAggregation]_vars

\* ------------------------------------------------- the endpoint settings

\* The environments of a deployment: each of the three endpoint variables the
\* documentation names is set or not.  "h//" is a base URL with slashes at
\* its end.
Environments ==
    [ HUGGINGFACE_INFERENCE_BASE_URL : {Unset, SetTo(<<"h">>), SetTo(<<"h", "/", "/">>)},
      DETECTOR_ENDPOINT              : {Unset, SetTo(<<"d">>)},
      TYPE_CLASSIFIER_ENDPOINT       : {Unset, SetTo(<<"t">>)} ]

\* A request with a one-sentence text has arrived at a deployment that has
\* the token and some environment.
InitConfiguration ==
    /\ BrowserAtRest
    /\ HF_TOKEN = TRUE
    /\ env \in Environments
    /\ parked = NotBegun
    /\ pc = "parse"
    /\ body = BodyWithText(LongText(1))
    /\ text = <<>>
    /\ sentences = <<>>
    /\ idx = 1
    /\ biasDetection = NoDetection
    /\ sentenceAnalyses = <<>>
    /\ response = NoResponse
    /\ outbound = <<>>
    /\ reply = NoReply
    /\ settled = NoSettlement

NextConfiguration ==
    \/ ParseBody
    \/ ValidateText
    \/ CheckCredential
    \/ Segment
    \/ CallDetector
    \/ FetchSettles
    \/ BodyRead
    \/ Classifies
    \/ DetectorReturns
    \/ TypeReturns
    \/ AnalysisReturns
    \/ FinishLoop
    \/ Aggregate

ConfigurationSpec == InitConfiguration /\ [][NextConfiguration]_vars

\* ------------------------------------------------------ concurrent requests

\* Where an invocation of POST is suspended or over: before it begins, at
\* `await req.json()`, and, for either classifier call, at `await fetch`, at
\* `await response.text()`, at `await parseJsonSafe(response)` and at
\* `await runClassification(...)`, then at `await analyzeSentence(sentence)`,
\* and after its return.  Only there can the event loop run another
\* invocation.
AwaitPoints ==
    {"idle", "parse",
     "awaitDetector", "readDetector", "parsedDetector", "classifiedDetector",
     "awaitType", "readType", "parsedType", "classifiedType",
     "analyzed", "responded"}

\* Variant of Switch: sentenceAnalyses is one array of the module, which the
\* invocations share, in place of a local of POST.
SwitchSharingAnalyses ==
    /\ pc \in AwaitPoints
    /\ parked.pc # "responded"
    /\ parked' = Locals
    /\ pc' = parked.pc
    /\ body' = parked.body
    /\ text' = parked.text
    /\ sentences' = parked.sentences
    /\ idx' = parked.idx
    /\ biasDetection' = parked.biasDetection
    /\ response' = parked.response
    /\ outbound' = parked.outbound
    /\ reply' = parked.reply
    /\ settled' = parked.settled
    /\ UNCHANGED <<HF_TOKEN, env, sentenceAnalyses, browser>>

\* The running invocation is suspended at an await (or over) and the event
\* loop resumes the other one, whose locals take the place of its own.
Switch ==
    /\ pc \in AwaitPoints
    /\ parked.pc # "responded"
    /\ parked' = Locals
    /\ pc' = parked.pc
    /\ body' = parked.body
    /\ text' = parked.text
    /\ sentences' = parked.sentences
    /\ idx' = parked.idx
    /\ biasDetection' = parked.biasDetection
    /\ sentenceAnalyses' = parked.sentenceAnalyses
    /\ response' = parked.response
    /\ outbound' = parked.outbound
    /\ reply' = parked.reply
    /\ settled' = parked.settled
    /\ UNCHANGED <<HF_TOKEN, env, browser>>

\* The texts of the two requests: one sentence each, not the same.
FirstText  == <<"a", "b", ".">>
SecondText == <<"b", "a", "?">>

\* Two requests have arrived and both wait for their body.
InitConcurrent ==
    /\ BrowserAtRest
    /\ HF_TOKEN = TRUE
    /\ env = DefaultEnv
    /\ pc = "parse"
    /\ body = BodyWithText(FirstText)
    /\ text = <<>>
    /\ sentences = <<>>
    /\ idx = 1
    /\ biasDetection = NoDetection
    /\ sentenceAnalyses = <<>>
    /\ response = NoResponse
    /\ outbound = <<>>
    /\ reply = NoReply
    /\ settled = NoSettlement
    /\ parked = [NotBegun EXCEPT !.pc = "parse", !.body = BodyWithText(SecondText)]

NextConcurrent ==
    \/ ParseBody
    \/ ValidateText
    \/ CheckCredential
    \/ Segment
    \/ CallDetector
    \/ FetchSettles
    \/ BodyRead
    \/ Classifies
    \/ DetectorReturns
    \/ TypeReturns
    \/ AnalysisReturns
    \/ FinishLoop
    \/ Aggregate
    \/ Switch

ConcurrentSpec == InitConcurrent /\ [][NextConcurrent]_vars

\* ---------------------------------------------------------- the chat column

\* Most messages the chats of the page grow to together, and most
\* characters a streamed response grows to.
MaxMessages == 3
MaxResponseLen == 2

\* Most prompts a column has received for a prompt to be sent to all still.
MaxSentToAll == 2

\* What the user may have typed into a composer: nothing, a blank, a prompt,
\* another prompt with a blank after it.
Inputs == {<<>>, <<" ">>, <<"p">>, <<"q", " ">>}

\* What the input of one column may hold when the user sends from it: nothing,
\* blanks only, or a prompt with a blank at its end.
LocalInputs == {<<>>, <<" ">>, <<"q", " ">>}

\* 'Hello! Compare this.'
Hello == <<"H","e","l","l","o","!"," ","C","o","m","p","a","r","e"," ","t","h","i","s",".">>

\* A message of useChat with one text part.
ChatMessage(role, t) == [role |-> role, parts |-> <<[type |-> "text", text |-> t]>>]

\* const getTextFromParts = (parts) => ...: the non-empty text parts,
\* each trimmed, joined by a newline, trimmed.
getTextFromParts(parts) ==
    LET kept == SelectSeq(parts, LAMBDA part : part.type = "text" /\ part.text # <<>>)
    IN  trim(join(TrimAll([i \in 1..Len(kept) |-> kept[i].text]), <<"\n">>))

\* [...messages].reverse().find((msg) => msg.role === role): the index of the
\* latest message of a role, 0 when there is none.
LatestIndex(messages, role) ==
    LET at == {k \in 1..Len(messages) : messages[k].role = role}
    IN  IF at = {} THEN 0 ELSE CHOOSE k \in at : \A j \in at : j <= k

RoleOf(slot) == IF slot = "prompt" THEN "user" ELSE "assistant"

\* The text the effect reads for a slot: that of the latest message of the
\* slot's role ("" when there is none).
SlotText(col, slot) ==
    LET k == LatestIndex(col.messages, RoleOf(slot))
    IN  IF k = 0 THEN <<>> ELSE getTextFromParts(col.messages[k].parts)

\* Variant of Due: the text is not compared with the one analysed last.
DueWithoutMemory(col, slot) ==
    /\ SlotText(col, slot) # <<>>
    /\ slot = "response" => col.status # "streaming"

\* Variant of Due: the response is analysed only in a column that is ready.
DueWhenReady(col, slot) ==
    /\ SlotText(col, slot) # <<>>
    /\ SlotText(col, slot) # col.lastAnalyzedText[slot]
    /\ slot = "response" => col.status = "ready"

\* The guards of the effect: whether it starts an analysis for a slot.
Due(col, slot) ==
    /\ SlotText(col, slot) # <<>>
    /\ SlotText(col, slot) # col.lastAnalyzedText[slot]
    /\ slot = "response" => col.status # "streaming"

\* A runBias call: its column, slot and text, and whether analyzeText has
\* settled.  biasRuns holds the calls of the instance of each column that
\* is mounted (after a reload: that was mounted last), in the order they
\* were made; the calls of an instance that React has discarded can set no
\* state any more, and they are dropped when the next instance is mounted.
BiasRun(c, slot, t) == [column |-> c, slot |-> slot, text |-> t, settled |-> FALSE]

\* The slot after each setBiasState of runBias.
LoadingSlot(t) == [status |-> "loading", text |-> t]
ReadySlot(t, result) == [status |-> "ready", text |-> t, result |-> result]
ErrorSlot(t, error) == [status |-> "error", text |-> t, error |-> error]

\* The column after the effect on [messages, status] has run: for each slot
\* that is due, the text is remembered and runBias sets the slot loading.
AfterEffect(col) ==
    LET after(slot, was, now) == IF Due(col, slot) THEN now ELSE was
    IN  [col EXCEPT
            !.lastAnalyzedText =
                [slot \in {"prompt", "response"} |-> after(slot, @[slot], SlotText(col, slot))],
            !.biasState =
                [slot \in {"prompt", "response"} |->
                    after(slot, @[slot], LoadingSlot(SlotText(col, slot)))] ]

\* The runBias calls of that run of the effect, the prompt's first.
RunsStarted(c, col) ==
    LET run(slot) == IF Due(col, slot) THEN <<BiasRun(c, slot, SlotText(col, slot))>> ELSE <<>>
    IN  run("prompt") \o run("response")

\* The history of the texts analysed last, after that run of the effect in
\* column c: it outlives the instance of the column, lastAnalyzedText does
\* not.
AnalysedAfter(last, c, col) ==
    [last EXCEPT ![c] = [slot \in {"prompt", "response"} |->
                            IF Due(col, slot) THEN SlotText(col, slot) ELSE @[slot]]]

\* The characters of a model id.
CharsOfId(id) ==
    CASE id = "google/gemini-2.5-flash-lite" ->
             <<"g","o","o","g","l","e","/","g","e","m","i","n","i","-","2",".","5","-","f","l","a","s","h","-","l","i","t","e">>
      [] id = "deepseek/deepseek-v3.1" ->
             <<"d","e","e","p","s","e","e","k","/","d","e","e","p","s","e","e","k","-","v","3",".","1">>
      [] id = "minimax/minimax-m2" ->
             <<"m","i","n","i","m","a","x","/","m","i","n","i","m","a","x","-","m","2">>
      [] id = "mistral/ministral-3b" ->
             <<"m","i","s","t","r","a","l","/","m","i","n","i","s","t","r","a","l","-","3","b">>
      [] id = "meituan/longcat-flash-chat" ->
             <<"m","e","i","t","u","a","n","/","l","o","n","g","c","a","t","-","f","l","a","s","h","-","c","h","a","t">>
      [] id = "openai/text-embedding-3-small" ->
             <<"o","p","e","n","a","i","/","t","e","x","t","-","e","m","b","e","d","d","i","n","g","-","3","-","s","m","a","l","l">>
      [] id = "meta/llama-3.1-8b" ->
             <<"m","e","t","a","/","l","l","a","m","a","-","3",".","1","-","8","b">>
      [] OTHER -> <<>>

\* s.replace(/[...]/g, to): each character of a class becomes `to`.
ReplaceChars(s, class, to) == [i \in 1..Len(s) |-> IF s[i] \in class THEN to ELSE s[i]]

\* id: model.id.replace(/[\/\.]/g, '-'), the id of the panel of a model.
PanelId(modelId) == ReplaceChars(CharsOfId(modelId), {"/", "."}, "-")

\* const storageKey = `${chatId}:${panel.id}` (the chat id kept as one piece).
storageKey(chatId, panelId) == <<chatId, ":">> \o panelId

\* The key of column c on a page.
KeyOf(pg, c) == storageKey(pg.activeChatId, PanelId(pg.selectedModels[c]))

\* The object stored under biascope_messages_v1: the messages by key.
JsonObject(entries) == [kind |-> "json", array |-> FALSE, entries |-> entries]

\* const savedMessages = allStoredMessages[key] || [] of the effect that
\* loads the messages; nothing when the item is not stored.
savedMessages(storage, key) ==
    LET stored == storage.biascope_messages_v1
    IN  IF stored.kind = "null" THEN <<>>
        ELSE IF key \in DOMAIN stored.entries THEN stored.entries[key]
        ELSE <<>>

\* The effect on [messages, storageKey] that persists the messages: with
\* messages, the stored object (`{}` when there is none) gets them under
\* the key and is stored again.
Persisted(storage, key, messages) ==
    IF messages = <<>> THEN storage
    ELSE LET stored == storage.biascope_messages_v1
             keys   == IF stored.kind = "null" THEN {} ELSE DOMAIN stored.entries
         IN  [storage EXCEPT !.biascope_messages_v1 =
                 JsonObject([k \in keys \cup {key} |->
                                IF k = key THEN messages ELSE stored.entries[k]])]

\* The messages of all the chats stored.
RECURSIVE CountMessages(_, _)
CountMessages(entries, keys) ==
    IF keys = {} THEN 0
    ELSE LET key == CHOOSE k \in keys : TRUE
         IN  Len(entries[key]) + CountMessages(entries, keys \ {key})

MessagesStored ==
    LET stored == localStorage.biascope_messages_v1
    IN  IF stored.kind = "null" THEN 0 ELSE CountMessages(stored.entries, DOMAIN stored.entries)

\* Column c is rendered with the state col, and its effects run: the
\* messages are persisted, the analyses that are due are started.
Rendered(c, col) ==
    /\ column' = [column EXCEPT ![c] = AfterEffect(col)]
    /\ biasRuns' = biasRuns \o RunsStarted(c, col)
    /\ analysedLast' = AnalysedAfter(analysedLast, c, col)
    /\ localStorage' = Persisted(localStorage, KeyOf(page, c), col.messages)

\* An instance of ChatColumn after the effects of its mount, before the
\* render they cause: bias state and lastAnalyzedText are reset (the effect
\* on [chatId, panel.id]), and the messages saved under the column's key are
\* set (the effect that loads the messages: useChat starts without any).
Mounted(pg, c) == [FreshColumn EXCEPT !.messages = savedMessages(localStorage, KeyOf(pg, c))]

\* const panels = useMemo(...): one panel for each selected model that is
\* on offer.
Panels == {c \in Columns : page.selectedModels[c] \in AVAILABLE_MODELS}

\* const canUseChat = chatsHydrated && modelsHydrated && !!activeChatId && panels.length === 2
canUseChat ==
    /\ page.chatsHydrated
    /\ page.modelsHydrated
    /\ page.activeChatId # ""
    /\ Cardinality(Panels) = 2

\* const send = async (text) => ...: a blank text is dropped; else
\* sendMessage appends the user's message and the chat is submitted.
AfterSend(col, t) ==
    IF trim(t) = <<>> THEN col
    ELSE [col EXCEPT !.messages = Append(@, ChatMessage("user", t)), !.status = "submitted"]

\* The text the Send button of a column sends:
\* sharedPrompt || localInput || 'Hello! Compare this.'
ButtonText(localInput) ==
    IF page.prompt # <<>> THEN page.prompt
    ELSE IF localInput # <<>> THEN localInput
    ELSE Hello

\* Enter in the column's own input: send(localInput).
PressEnter(c) ==
    /\ canUseChat
    /\ MessagesStored < MaxMessages
    /\ \E localInput \in LocalInputs : Rendered(c, AfterSend(column[c], localInput))
    /\ UNCHANGED <<server, page>>

\* A click on the column's Send button, which is disabled while the column
\* streams.
ClickSend(c) ==
    /\ canUseChat
    /\ column[c].status # "streaming"
    /\ MessagesStored < MaxMessages
    /\ \E localInput \in LocalInputs : Rendered(c, AfterSend(column[c], ButtonText(localInput)))
    /\ UNCHANGED <<server, page>>

\* useChat: the response begins to stream, an assistant message is added.
StreamStarts(c) ==
    /\ column[c].status = "submitted"
    /\ MessagesStored < MaxMessages
    /\ Rendered(c, [column[c] EXCEPT !.messages = Append(@, ChatMessage("assistant", <<>>)),
                                     !.status = "streaming"])
    /\ UNCHANGED <<server, page>>

\* useChat: a chunk of the stream is added to the assistant message.
StreamChunk(c) ==
    LET col == column[c]
        n   == Len(col.messages)
    IN  /\ col.status = "streaming"
        /\ col.messages[n].role = "assistant"
        /\ Len(col.messages[n].parts[1].text) < MaxResponseLen
        /\ Rendered(c, [col EXCEPT !.messages[n].parts[1].text = Append(@, "r")])
        /\ UNCHANGED <<server, page>>

\* useChat: the stream is over, or the user pressed Stop.
StreamEnds(c) ==
    /\ column[c].status = "streaming"
    /\ Rendered(c, [column[c] EXCEPT !.status = "ready"])
    /\ UNCHANGED <<server, page>>

\* useChat: the request to /api/chat failed, before or while streaming.
StreamFails(c) ==
    /\ column[c].status \in {"submitted", "streaming"}
    /\ Rendered(c, [column[c] EXCEPT !.status = "error"])
    /\ UNCHANGED <<server, page>>

\* The report of /api/bias for a text, which carries the text.
ResultFor(t) == [text |-> t]

\* What the request of analyzeText comes to: fetch resolves and
\* response.json() yields the payload, or one of the two rejects with
\* something that is an Error or not.
Answered(ok, payload) == [kind |-> "answered", ok |-> ok, payload |-> payload]
Rejected(isError, message) == [kind |-> "rejected", isError |-> isError, message |-> message]

\* A payload with an `error` field.
ErrorPayload(error) == [hasError |-> TRUE, error |-> error]

\* What the request to /api/bias comes to for a text: the 400 of the
\* handler when the text has no sentence, else its report or, when the
\* classifier fails for every sentence, its 502; or the request fails on
\* the network and fetch rejects with a TypeError.
BiasAnswers(t) ==
    ( IF splitIntoSentences(trim(t)) = <<>>
      THEN { Answered(FALSE, ErrorPayload("Could not extract sentences from text.")) }
      ELSE { Answered(TRUE, ResultFor(t)),
             Answered(FALSE, ErrorPayload("Failed to analyze any sentences.")) } )
    \cup { Rejected(TRUE, "Failed to fetch") }

\* const analyzeText = useCallback(async (text) => ...): what it settles
\* with, the payload or the error thrown.
analyzeText(answer) ==
    IF answer.kind = "rejected" THEN [kind |-> "thrown", thrown |-> answer]
    ELSE IF ~answer.ok
    THEN [kind |-> "thrown",
          thrown |-> Rejected(TRUE, IF answer.payload.hasError THEN answer.payload.error
                                    ELSE "Bias analysis failed")]
    ELSE [kind |-> "returned", result |-> answer.payload]

\* The column after analyzeText of a run has settled: runBias sets the slot
\* ready with the result, or error with the message of the error caught
\* ('Unexpected error' when it is no Error).
AfterRun(col, run, answer) ==
    LET outcome == analyzeText(answer)
    IN  [col EXCEPT !.biasState[run.slot] =
            IF outcome.kind = "returned" THEN ReadySlot(run.text, outcome.result)
            ELSE ErrorSlot(run.text, IF outcome.thrown.isError THEN outcome.thrown.message
                                     ELSE "Unexpected error")]

\* The case of BiasSettles below in which the request of the n-th runBias
\* call fails on the network: whether a request can settle is decided by
\* it, without the handler's splitting of the text.
BiasFails(n) ==
    /\ canUseChat
    /\ n \in 1..Len(biasRuns)
    /\ ~biasRuns[n].settled
    /\ column' = [column EXCEPT ![biasRuns[n].column] =
                     AfterRun(@, biasRuns[n], Rejected(TRUE, "Failed to fetch"))]
    /\ biasRuns' = [biasRuns EXCEPT ![n].settled = TRUE]
    /\ UNCHANGED <<server, page, analysedLast, localStorage>>

\* The /api/bias request of the n-th runBias call completes or fails, and
\* runBias sets the slot of its column, which is mounted.
BiasSettles(n) ==
    /\ canUseChat
    /\ n \in 1..Len(biasRuns)
    /\ ~biasRuns[n].settled
    /\ \E answer \in BiasAnswers(biasRuns[n].text) :
           column' = [column EXCEPT ![biasRuns[n].column] = AfterRun(@, biasRuns[n], answer)]
    /\ biasRuns' = [biasRuns EXCEPT ![n].settled = TRUE]
    /\ UNCHANGED <<server, page, analysedLast, localStorage>>

\* ------------------------------------------------------------------ the page

\* What localStorage holds under biascope_models_v1: nothing, or a JSON
\* value, an array or not, with its items.
JsonItem(array, items) == [kind |-> "json", array |-> array, items |-> items]

\* JSON.stringify(selectedModels)
ItemOf(selectedModels) == JsonItem(TRUE, <<selectedModels[0], selectedModels[1]>>)

\* const loadModels = (): [string, string] => ...
loadModels(item) ==
    IF item.kind = "json" /\ item.array /\ Len(item.items) = 2
    THEN LET valid == SelectSeq(item.items, LAMBDA stored : stored \in AVAILABLE_MODELS)
         IN  IF Len(valid) = 2 THEN [c \in Columns |-> valid[c + 1]] ELSE DEFAULT_MODELS
    ELSE DEFAULT_MODELS

\* The effects of the page once it is loaded.  useChatHistory loads the
\* chats (one is made when none is stored) and the first becomes the active
\* one; useModelSelection loads the model selection and writes it back; the
\* two columns are mounted, each loads the messages saved under its key and
\* the analyses of the texts loaded are started.
Hydrate ==
    /\ ~page.modelsHydrated
    /\ LET hydrated   == [page EXCEPT
                             !.selectedModels = loadModels(localStorage.biascope_models_v1),
                             !.modelsHydrated = TRUE,
                             !.chatsHydrated  = TRUE,
                             !.activeChatId   = "chat"]
           mounted(c) == Mounted(hydrated, c)
       IN  /\ page' = hydrated
           /\ column' = [c \in Columns |-> AfterEffect(mounted(c))]
           /\ biasRuns' = RunsStarted(0, mounted(0)) \o RunsStarted(1, mounted(1))
           /\ analysedLast' = AnalysedAfter(AnalysedAfter(analysedLast, 0, mounted(0)),
                                            1, mounted(1))
           /\ localStorage' = [localStorage EXCEPT
                                  !.biascope_models_v1 = ItemOf(hydrated.selectedModels)]
    /\ UNCHANGED server

\* The user reloads the page: the state of the page and of its columns is
\* gone with the requests they made, no column is mounted until the page is
\* hydrated, the storage stays.
Reload ==
    /\ page.modelsHydrated
    /\ page' = FreshPage
    /\ column' = [c \in Columns |-> FreshColumn]
    /\ biasRuns' = <<>>
    /\ analysedLast' = NoneAnalysed
    /\ UNCHANGED <<server, localStorage>>

\* The user edits the shared composer: setPrompt(e.target.value).
TypePrompt ==
    /\ \E input \in Inputs : page' = [page EXCEPT !.prompt = input]
    /\ UNCHANGED <<server, column, biasRuns, analysedLast, localStorage>>

\* const isCurrentModel = ...: whether model m is the one of column c.
isCurrentModel(c, m) ==
    LET panelId == PanelId(page.selectedModels[c])
    IN  \/ CharsOfId(m) = ReplaceChars(ReplaceChars(panelId, {"-"}, "/"), {"."}, "/")
        \/ PanelId(m) = panelId

\* Variant of canSelect: the model of the other column may be chosen too.
canSelectAny(c, m) == TRUE

\* const canSelect = isCurrentModel || !isOtherColumn
canSelect(c, m) == isCurrentModel(c, m) \/ ~(m = page.selectedModels[1 - c])

\* A click on model m in the selector of column c.  The entry of the other
\* column's model is disabled; the current model changes nothing; any other
\* goes to setModel and the selection is stored.  The column gets a new key,
\* so its instance is discarded and a new one is mounted, which loads the
\* messages saved for the new model and starts their analyses.
SelectModel(c, m) ==
    /\ canUseChat
    /\ m \in AVAILABLE_MODELS
    /\ canSelect(c, m)
    /\ ~isCurrentModel(c, m)
    /\ LET selected == [page EXCEPT !.selectedModels[c] = m]
           mounted  == Mounted(selected, c)
           others   == SelectSeq(biasRuns, LAMBDA run : run.column # c)
       IN  /\ page' = selected
           /\ column' = [column EXCEPT ![c] = AfterEffect(mounted)]
           /\ biasRuns' = others \o RunsStarted(c, mounted)
           /\ analysedLast' = AnalysedAfter(analysedLast, c, mounted)
           /\ localStorage' = [localStorage EXCEPT
                                  !.biascope_models_v1 = ItemOf(selected.selectedModels)]
    /\ UNCHANGED server

\* What the input of a column may hold when 'Send to all' is used: nothing,
\* or a prompt of its own.
OwnInputs == {<<>>, <<"q", " ">>}

\* Whether button.click() on the Send button of a column runs its handler:
\* not on a disabled button.
Clickable(col) == col.status # "streaming"

\* const sendAll = () => ...: a click on every button[data-send], then
\* setPrompt('').
sendAll ==
    /\ canUseChat
    /\ \A c \in Columns : Len(SelectSeq(column[c].messages, LAMBDA msg : msg.role = "user")) < MaxSentToAll
    /\ \E localInput \in [Columns -> OwnInputs] :
           LET clicked(c) == IF Clickable(column[c])
                             THEN AfterSend(column[c], ButtonText(localInput[c]))
                             ELSE column[c]
           IN  /\ column' = [c \in Columns |-> AfterEffect(clicked(c))]
               /\ biasRuns' = biasRuns \o RunsStarted(0, clicked(0)) \o RunsStarted(1, clicked(1))
               /\ analysedLast' = AnalysedAfter(AnalysedAfter(analysedLast, 0, clicked(0)),
                                                1, clicked(1))
               /\ localStorage' = Persisted(Persisted(localStorage, KeyOf(page, 0),
                                                      clicked(0).messages),
                                            KeyOf(page, 1), clicked(1).messages)
    /\ page' = [page EXCEPT !.prompt = <<>>]
    /\ UNCHANGED server

\* The server side at rest, with its token.
ServerAtRest ==
    /\ HF_TOKEN = TRUE
    /\ env = DefaultEnv
    /\ parked = NotBegun
    /\ pc = "idle"
    /\ body = BodyNotJson("")
    /\ text = <<>>
    /\ sentences = <<>>
    /\ idx = 1
    /\ biasDetection = NoDetection
    /\ sentenceAnalyses = <<>>
    /\ response = NoResponse
    /\ outbound = <<>>
    /\ reply = NoReply
    /\ settled = NoSettlement

\* The models the user chooses among for the first column while chatting.
ColumnModels == {"minimax/minimax-m2", "meta/llama-3.1-8b"}

\* One column: the page is loaded in a browser that has never loaded it,
\* the user chats with the model of the first column, chooses another model
\* for it and reloads the page, and the analyses of the prompts and
\* responses come back.
InitColumn ==
    /\ ServerAtRest
    /\ BrowserAtRest

NextColumn ==
    \/ Hydrate
    \/ Reload
    \/ \E m \in ColumnModels : SelectModel(0, m)
    \/ PressEnter(0)
    \/ ClickSend(0)
    \/ StreamStarts(0)
    \/ StreamChunk(0)
    \/ StreamEnds(0)
    \/ StreamFails(0)
    \/ \E n \in 1..Len(biasRuns) : BiasSettles(n)

ColumnSpec == InitColumn /\ [][NextColumn]_vars

\* The same, where the /api/bias requests complete or fail in the end:
\* while a request is awaited, one of those awaited is settled.  BiasFails
\* is a case of BiasSettles, so the action is that of BiasSettles.
FairColumnSpec ==
    /\ ColumnSpec
    /\ WF_vars(\E n \in 1..Len(biasRuns) : BiasFails(n) \/ BiasSettles(n))

\* Both columns: the page is loaded and reloaded, the user writes into the
\* shared composer and sends to all, and the responses stream.
NextPage ==
    \/ Hydrate
    \/ Reload
    \/ TypePrompt
    \/ sendAll
    \/ \E c \in Columns : StreamStarts(c)
    \/ \E c \in Columns : StreamEnds(c)

PageSpec == InitColumn /\ [][NextPage]_vars

\* The choice of models: the page is loaded and reloaded, and the user picks
\* models in the selectors of the columns and edits the composer.
NextSelection ==
    \/ Hydrate
    \/ Reload
    \/ TypePrompt
    \/ \E c \in Columns, m \in AVAILABLE_MODELS : SelectModel(c, m)

SelectionSpec == InitColumn /\ [][NextSelection]_vars

\* ------------------------------------------------------------------ properties

Responded == pc = "responded"

\* Positions of the history where a call to model for sentence i was sent.
CallsOf(model, i) ==
    {k \in 1..Len(outbound) : outbound[k] = CallEvent(model, i)}

\* Positions of the history where a call to model for sentence i settled.
SettlesOf(model, i) ==
    {k \in 1..Len(outbound) :
        /\ outbound[k].event = "settle"
        /\ outbound[k].model = model
        /\ outbound[k].sentence = i}

\* Sentences whose detection call settled with a classification / without.
Detected == {i \in 1..Len(sentences) :
                \E k \in SettlesOf(DETECTOR_MODEL, i) : outbound[k].result.kind = "ok"}
Undetected == {i \in 1..Len(sentences) :
                \E k \in SettlesOf(DETECTOR_MODEL, i) : outbound[k].result.kind # "ok"}

\* The sentences of xs at the indices in keep, in order.
RECURSIVE Pick(_, _, _)
Pick(xs, i, keep) ==
    IF i > Len(xs) THEN <<>>
    ELSE (IF i \in keep THEN <<xs[i]>> ELSE <<>>) \o Pick(xs, i + 1, keep)

\* C1: a sentence whose detection call throws or yields no classification
\* does not end the batch: when the handler has responded after a failed
\* sentence, a detection call was sent for every segmented sentence, and if
\* some sentence was detected the response is 200, lists exactly the detected
\* sentences and has totalSentences equal to their number.
C1_FailureDoesNotAbortBatch ==
    (Responded /\ Undetected # {}) =>
        /\ \A i \in 1..Len(sentences) : CallsOf(DETECTOR_MODEL, i) # {}
        /\ Detected # {} =>
              /\ response.status = 200
              /\ response.statistics.totalSentences = Cardinality(Detected)
              /\ [n \in 1..Len(response.sentences) |-> response.sentences[n].sentence]
                     = Pick(sentences, 1, Detected)

\* C1 witness: two sentences, the first failed, the second was detected, and
\* the report counts one sentence.
C1_Witness ==
    /\ Responded
    /\ Len(sentences) = 2
    /\ 1 \in Undetected
    /\ 2 \in Detected
    /\ response.status = 200
    /\ response.statistics.totalSentences = 1

\* The known biased-label convention, case-insensitively.
IsBiasedLabel(label) == toLowerCase(label) \in {Str_label_1, Str_biased, Str_bias}

\* C2: every type-classification call for a sentence comes after a detection
\* call for that sentence that settled with a classification whose label is
\* a biased label and whose score is above 0.5.
C2_TypeCallAfterBiasedDetection ==
    \A k \in 1..Len(outbound) :
        (outbound[k].event = "call" /\ outbound[k].model = TYPE_MODEL) =>
            \E j \in SettlesOf(DETECTOR_MODEL, outbound[k].sentence) :
                /\ j < k
                /\ outbound[j].result.kind = "ok"
                /\ IsBiasedLabel(outbound[j].result.label)
                /\ outbound[j].result.score > Threshold

\* C2 witness: a type call was sent for the second sentence while the first
\* sentence got none.
C2_Witness ==
    /\ CallsOf(TYPE_MODEL, 2) # {}
    /\ CallsOf(TYPE_MODEL, 1) = {}
    /\ 1 \in Detected

\* The records of a report that count as biased: friendly label "biased",
\* case-insensitively, and score above 0.5.
BiasedRecords(records) ==
    {n \in 1..Len(records) :
        /\ toLowerCase(records[n].biasDetection.friendlyLabel) = Str_biased
        /\ records[n].biasDetection.score > Threshold}

RECURSIVE SumScoresAt(_, _)
SumScoresAt(records, at) ==
    IF at = {} THEN 0
    ELSE LET n == CHOOSE m \in at : TRUE
         IN  records[n].biasDetection.score + SumScoresAt(records, at \ {n})

RECURSIVE SumValues(_, _)
SumValues(f, keys) ==
    IF keys = {} THEN 0
    ELSE LET key == CHOOSE x \in keys : TRUE
         IN  f[key] + SumValues(f, keys \ {key})

Reported == Responded /\ response.status = 200

\* C3: in every 200 response avgBiasedScore is the mean, to the nearest
\* thousandth, of the scores of exactly the records counted in biasedSentences,
\* is 0 when there are none, and never exceeds the largest of those scores.
C3_AvgBiasedScoreIsMeanOfBiased ==
    Reported =>
        LET records == response.sentences
            biased  == BiasedRecords(records)
            stats   == response.statistics
        IN  /\ stats.biasedSentences = Cardinality(biased)
            /\ IF biased = {}
               THEN stats.avgBiasedScore = 0
               ELSE /\ LET scaled == stats.avgBiasedScore * Cardinality(biased)
                            exact  == SumScoresAt(records, biased)
                        IN  2 * (IF scaled >= exact THEN scaled - exact ELSE exact - scaled)
                                <= Cardinality(biased)
                    /\ \E n \in biased :
                          stats.avgBiasedScore <= records[n].biasDetection.score

\* C4: in every 200 response the counts of biasTypeCounts sum to at most
\* biasedSentences, and every record with a biasType is a record the
\* aggregator counts as biased.
C4_TypeCountsAtMostBiased ==
    Reported =>
        LET records == response.sentences
            stats   == response.statistics
        IN  /\ SumValues(stats.biasTypeCounts, DOMAIN stats.biasTypeCounts)
                   <= stats.biasedSentences
            /\ \A n \in 1..Len(records) :
                   records[n].biasType.present => n \in BiasedRecords(records)

\* C4 witness: a report with two biased sentences of which one has a type.
C4_Witness ==
    /\ Reported
    /\ response.statistics.biasedSentences = 2
    /\ SumValues(response.statistics.biasTypeCounts,
                 DOMAIN response.statistics.biasTypeCounts) = 1

\* C5: in every 200 response biasedSentences + unbiasedSentences equals
\* totalSentences, neither count is negative, and totalSentences is the
\* length of the sentences array.
C5_CountsAddUp ==
    Reported =>
        LET stats == response.statistics
        IN  /\ stats.biasedSentences + stats.unbiasedSentences = stats.totalSentences
            /\ stats.biasedSentences >= 0
            /\ stats.unbiasedSentences >= 0
            /\ stats.totalSentences = Len(response.sentences)

\* C5 witness: a report over one biased and one unbiased record, after a
\* text of two sentences.
C5_Witness ==
    /\ Reported
    /\ response.statistics.biasedSentences = 1
    /\ response.statistics.unbiasedSentences = 1
    /\ Len(response.sentences) = 2

\* C6: the aggregation step runs only with at least one record, so no
\* statistic is ever a division by zero: every report has totalSentences of
\* at least 1.
C6_AggregationNeedsARecord ==
    /\ pc = "aggregate" => Len(sentenceAnalyses) >= 1
    /\ Reported => response.statistics.totalSentences >= 1

\* C6 witness: the handler stands before the aggregation with one record,
\* one sentence having failed.
C6_Witness ==
    /\ pc = "aggregate"
    /\ Len(sentenceAnalyses) = 1
    /\ Undetected # {}

\* C7: when there is at least one sentence and the analysis of every
\* sentence failed, the response is 502 with an error body.
C7_AllFailedIs502 ==
    (/\ Responded
     /\ Len(sentences) >= 1
     /\ \A i \in 1..Len(sentences) : i \in Undetected)
        => /\ response.status = 502
           /\ response.error = "Failed to analyze any sentences."

\* C7 witness: a 502 after two sentences that both failed.
C7_Witness ==
    /\ Responded
    /\ Len(sentences) = 2
    /\ Undetected = {1, 2}
    /\ response.status = 502

\* The text field of the request ("" when the body has none).
RequestText == IF body.json /\ body.hasText /\ body.string THEN body.text ELSE <<>>

\* Empty or whitespace only.
IsBlank(t) == \A i \in 1..Len(t) : t[i] \in Whitespace

SegmentsIntoNothing(t) == ~IsBlank(t) /\ Len(splitIntoSentences(trim(t))) = 0

\* C8 as stated: for a non-blank text that segments into zero sentences no
\* outbound call is made and the response is 400.
C8_ZeroSentencesIs400 ==
    SegmentsIntoNothing(RequestText) =>
        /\ outbound = <<>>
        /\ Responded => response.status = 400

\* C8 as amended: with a credential configured, for a non-blank text that
\* segments into zero sentences no outbound call is made and the response
\* is 400.
C8_ZeroSentencesIs400WithCredential ==
    (HF_TOKEN /\ SegmentsIntoNothing(RequestText)) =>
        /\ outbound = <<>>
        /\ Responded => response.status = 400

\* C8 witness: a 400 for a text with a word in it that yields no sentence.
C8_Witness ==
    /\ Responded
    /\ HF_TOKEN
    /\ SegmentsIntoNothing(RequestText)
    /\ \E i \in 1..Len(RequestText) : RequestText[i] = "a"
    /\ response = ErrorResponse(400, "Could not extract sentences from text.")

\* C9: when the text field of the request's JSON object is missing, empty
\* or whitespace only, no outbound call is made and the response is 400.
C9_BlankTextIs400 ==
    (body.json /\ body.object /\ (body.hasText => body.string) /\ IsBlank(RequestText)) =>
        /\ outbound = <<>>
        /\ Responded => response.status = 400

\* C9 witness: a 400 for a text of two or more whitespace characters, on a
\* server without credential.
C9_Witness ==
    /\ Responded
    /\ body.json
    /\ body.hasText
    /\ Len(body.text) >= 2
    /\ IsBlank(body.text)
    /\ ~HF_TOKEN
    /\ response.status = 400

\* C10: without a credential no outbound call is ever made, and a request
\* with non-blank text is answered 500 with the message about the missing
\* token.
C10_NoCredentialIs500 ==
    ~HF_TOKEN =>
        /\ outbound = <<>>
        /\ (Responded /\ ~IsBlank(RequestText)) =>
               response = ErrorResponse(500, "HUGGINGFACE_TOKEN is not configured on the server.")

\* C10 witness: a 500 without credential for a text that has two sentences.
C10_Witness ==
    /\ Responded
    /\ ~HF_TOKEN
    /\ Len(splitIntoSentences(trim(RequestText))) = 2
    /\ response.status = 500

\* An upper bound on the steps the handler has left before it responds: at
\* most ten per sentence still to analyse, a sentence taking at least three
\* characters of the text.
StepsLeft ==
    LET perSentence == 10
        inLoop(done) == perSentence * (Len(sentences) - idx + 1) - done + 2
        beforeLoop   == perSentence * Len(text) + 2
    IN  CASE pc = "idle"          -> perSentence * 2 * MaxTextParts + 7
          [] pc = "parse"         -> perSentence * 2 * MaxTextParts + 6
          [] pc = "validate"      -> beforeLoop + 3
          [] pc = "credential"    -> beforeLoop + 2
          [] pc = "segment"       -> beforeLoop + 1
          [] pc = "analyze"            -> inLoop(0)
          [] pc = "awaitDetector"      -> inLoop(1)
          [] pc = "readDetector"       -> inLoop(2)
          [] pc = "parsedDetector"     -> inLoop(3)
          [] pc = "classifiedDetector" -> inLoop(4)
          [] pc = "awaitType"          -> inLoop(5)
          [] pc = "readType"           -> inLoop(6)
          [] pc = "parsedType"         -> inLoop(7)
          [] pc = "classifiedType"     -> inLoop(8)
          [] pc = "analyzed"           -> inLoop(9)
          [] pc = "aggregate"     -> 1
          [] pc = "responded"     -> 0

\* C11: every request ends in exactly one response, whose status is 200,
\* 400, 500 or 502: every step of the handler brings the response nearer and
\* the handler stops nowhere else, a response once given is never replaced,
\* and an exception outside the per-sentence handling (a body that is not
\* JSON, a body that is null, a text that is not a string) is answered 500 with the exception's
\* message.
C11_EveryRequestEndsInOneResponse ==
    /\ [][StepsLeft' < StepsLeft]_vars
    /\ [](StepsLeft >= 0)
    /\ [](Responded <=> response # NoResponse)
    /\ [](Responded => response.status \in {200, 400, 500, 502})
    /\ [][response # NoResponse => response' = response]_vars
    /\ []((Responded /\ ~body.json) =>
              response = ErrorResponse(500, SyntaxErrorMessage(body.raw)))
    /\ []((Responded /\ body = BodyNull) =>
              response = ErrorResponse(500, DestructureErrorMessage))
    /\ []((Responded /\ body = BodyWithNumber) => response = ErrorResponse(500, TypeErrorMessage))

\* C11 witness: a body that is not JSON has been answered 500.
C11_Witness ==
    /\ Responded
    /\ ~body.json
    /\ response.status = 500

\* Sentences whose type call threw or yielded no classification.
TypeFailed == {i \in 1..Len(sentences) :
                  \E k \in SettlesOf(TYPE_MODEL, i) : outbound[k].result.kind # "ok"}

\* Position in the records of the record of detected sentence i.
RecordOf(i) == Cardinality({j \in Detected : j <= i})

\* C12: a sentence whose type call threw or yielded no classification,
\* after a biased detection, has its record all the same once the loop has
\* gone past it, with no biasType, and the request is not failed by it: once
\* the handler has responded the response is 200 and lists that record.
C12_TypeFailureKeepsSentence ==
    \A i \in TypeFailed :
        /\ i \in Detected
        /\ i < idx =>
               /\ RecordOf(i) <= Len(sentenceAnalyses)
               /\ sentenceAnalyses[RecordOf(i)].sentence = sentences[i]
               /\ IsBiasedLabel(sentenceAnalyses[RecordOf(i)].biasDetection.label)
               /\ ~sentenceAnalyses[RecordOf(i)].biasType.present
        /\ Responded =>
               /\ response.status = 200
               /\ response.sentences[RecordOf(i)] = sentenceAnalyses[RecordOf(i)]

\* C12 witness: a report of two sentences, the type call of the first threw
\* and that of the second yielded no classification.
C12_Witness ==
    /\ Responded
    /\ Len(sentences) = 2
    /\ \E k \in SettlesOf(TYPE_MODEL, 1) : outbound[k].result.kind = "throw"
    /\ \E k \in SettlesOf(TYPE_MODEL, 2) : outbound[k].result.kind = "null"
    /\ Len(response.sentences) = 2

\* C13: in every record of a 200 response a biasType is present only if the
\* detection label is a biased label and the detection score is above 0.5;
\* a record whose label is not a biased label or whose score is at most 0.5
\* has no biasType.
C13_TypeOnlyAboveThreshold ==
    Reported =>
        \A n \in 1..Len(response.sentences) :
            LET record == response.sentences[n]
                label  == record.biasDetection.label
                score  == record.biasDetection.score
            IN  /\ record.biasType.present => (IsBiasedLabel(label) /\ score > Threshold)
                /\ (~IsBiasedLabel(label) \/ score <= Threshold) => record.biasType = NoBiasType

\* C13 witness: a report with a typed record and with a record whose label
\* is a biased label but whose score is exactly 0.5, which has no type.
C13_Witness ==
    /\ Reported
    /\ Len(response.sentences) = 2
    /\ response.sentences[1].biasType.present
    /\ IsBiasedLabel(response.sentences[2].biasDetection.label)
    /\ response.sentences[2].biasDetection.score = Threshold
    /\ ~response.sentences[2].biasType.present

\* sub can be had from full by deleting elements.
RECURSIVE IsSubsequence(_, _)
IsSubsequence(sub, full) ==
    IF sub = <<>> THEN TRUE
    ELSE IF full = <<>> THEN FALSE
    ELSE IF Head(sub) = Head(full) THEN IsSubsequence(Tail(sub), Tail(full))
    ELSE IsSubsequence(sub, Tail(full))

SentencesOf(records) == [n \in 1..Len(records) |-> records[n].sentence]

\* C14: the sentences of the records of a 200 response are a subsequence
\* of the splitter's output for the request text, in the splitter's order,
\* whichever sentences failed.
C14_ReportKeepsSentenceOrder ==
    Reported =>
        IsSubsequence(SentencesOf(response.sentences),
                      splitIntoSentences(trim(RequestText)))

\* C14 witness: a report of two records with different sentences.
C14_Witness ==
    /\ Reported
    /\ Len(response.sentences) = 2
    /\ response.sentences[1].sentence # response.sentences[2].sentence

\* C15: the splitter returns no sentence shorter than 3 characters after
\* trimming, for the request text as it came and for the trimmed text the
\* handler segments, on the main path and on the fallback path.
C15_NoShortSentence ==
    /\ \A i \in 1..Len(sentences) : Len(trim(sentences[i])) >= 3
    /\ LET out == splitIntoSentences(RequestText)
       IN  \A i \in 1..Len(out) : Len(trim(out[i])) >= 3

\* C15 witness: the handler has segmented a text for which the main path
\* left nothing and the fallback path returned a sentence.
C15_Witness ==
    /\ sentences # <<>>
    /\ MainSentences(Cleaned(trim(text))) = <<>>
    /\ sentences = FallbackSentences(Cleaned(trim(text)))

\* Whitespace normalization as the round trip words it: each whitespace
\* character that follows another is dropped, the others become one space,
\* and the ends are trimmed.
Normalized(t) ==
    LET kept == {i \in 1..Len(t) : ~(t[i] \in Whitespace /\ i > 1 /\ t[i - 1] \in Whitespace)}
        at(n) == CHOOSE i \in kept : Cardinality({j \in kept : j <= i}) = n
        squeezed == [n \in 1..Cardinality(kept) |->
                        IF t[at(n)] \in Whitespace THEN " " ELSE t[at(n)]]
        first == IF squeezed # <<>> /\ squeezed[1] = " " THEN 2 ELSE 1
        last  == IF squeezed # <<>> /\ squeezed[Len(squeezed)] = " "
                 THEN Len(squeezed) - 1 ELSE Len(squeezed)
    IN  SubSeq(squeezed, first, last)

\* A normalized text that is one sentence: it has a character that is
\* neither punctuation nor whitespace, and no sentence end inside, that is,
\* no punctuation followed by whitespace.
IsOneSentence(n) ==
    /\ \E i \in 1..Len(n) : n[i] \notin (Punctuation \cup Whitespace)
    /\ \A i \in 1..Len(n) - 1 : ~(n[i] \in Punctuation /\ n[i + 1] \in Whitespace)

\* The text ends in punctuation set off from the words by whitespace.
SpaceBeforeClosingPunctuation(n) ==
    \E i \in 1..Len(n) - 1 :
        /\ n[i] \in Whitespace
        /\ \A j \in (i + 1)..Len(n) : n[j] \in Punctuation

\* The splitter gives back the text whole, normalized: called on the
\* request text, and in the handler once it has segmented.
RoundTrips(t) ==
    /\ splitIntoSentences(t) = <<Normalized(t)>>
    /\ sentences # <<>> => sentences = <<Normalized(t)>>

\* C16 as stated: for a text of exactly one sentence the splitter returns
\* a sequence of length 1 whose element is the normalized text.
C16_OneSentenceRoundTrip ==
    IsOneSentence(Normalized(RequestText)) => RoundTrips(RequestText)

\* C16 as amended: for a text of exactly one sentence that is at least 3
\* characters long once normalized and has no whitespace before its
\* closing punctuation, the splitter returns a sequence of length 1 whose
\* element is the normalized text.
C16_LongEnoughSentenceRoundTrip ==
    LET n == Normalized(RequestText)
    IN  (IsOneSentence(n) /\ Len(n) >= 3 /\ ~SpaceBeforeClosingPunctuation(n))
            => RoundTrips(RequestText)

\* C16 witness: the handler has segmented a one-sentence text with a space
\* inside and closing punctuation, which normalization made shorter.
C16_Witness ==
    LET n == Normalized(RequestText)
    IN  /\ IsOneSentence(n) /\ Len(n) >= 3 /\ ~SpaceBeforeClosingPunctuation(n)
        /\ Len(n) < Len(RequestText)
        /\ \E i \in 1..Len(n) : n[i] = " "
        /\ n[Len(n)] \in Punctuation
        /\ sentences = <<n>>

\* runClassification has the parsed body of a reply and is about to look at
\* it.
Reading == pc \in {"parsedDetector", "parsedType"}

\* What the step that ends runClassification adds to the history first: the
\* outcome of the call.
Outcome == outbound'[Len(outbound) + 1].result

\* C17: on a reply with a passing status the client takes the body, or
\* the first element when the body is an array, and returns it when it is
\* an object with a string label and a numeric score; for any other body
\* (an empty body, an empty array, a string, an object short of a field) it
\* returns null and does not throw; and a null from the detector skips the
\* sentence, which gets no record: analyzeSentence throws on it, and the
\* loop goes on to the next sentence with the records it had.
C17_FirstElementOrNull ==
    /\ [][(Reading /\ ~reply.rejected /\ reply.ok) =>
             LET data  == reply.data
                 first == IF data.type # "array" THEN data
                          ELSE IF data.items = <<>> THEN DataNull
                          ELSE data.items[1]
                 valid == first.type = "object" /\ {"label", "score"} \subseteq first.fields
             IN  /\ valid => Outcome = Classification(first.label, first.score)
                 /\ ~valid => Outcome = NoClassification
                 /\ settled' = Outcome]_vars
    /\ [][(pc = "classifiedDetector" /\ settled = NoClassification) =>
             /\ pc' = "analyzed"
             /\ settled'.kind = "throw"
             /\ sentenceAnalyses' = sentenceAnalyses]_vars
    /\ [][(pc = "analyzed" /\ settled.kind = "throw") =>
             /\ sentenceAnalyses' = sentenceAnalyses
             /\ idx' = idx + 1
             /\ pc' = "analyze"]_vars

\* C17 witness: the detector's reply for the first sentence was read as
\* null and the sentence got no record; the reply for the second is an array
\* of two classifications.
C17_Witness ==
    /\ pc = "parsedDetector"
    /\ idx = 2
    /\ \E k \in SettlesOf(DETECTOR_MODEL, 1) : outbound[k].result = NoClassification
    /\ sentenceAnalyses = <<>>
    /\ ~reply.rejected /\ reply.ok
    /\ reply.data.type = "array"
    /\ Len(reply.data.items) = 2

\* C18: on a reply with a failing status the client throws, whatever the
\* body holds, and the message thrown is the body's error field when the
\* body is an object that has one, else the body itself when it is a string
\* that is not blank, else the generic message.
C18_FailingStatusThrows ==
    [][(Reading /\ ~reply.rejected /\ ~reply.ok) =>
          LET data == reply.data
          IN  /\ Outcome.kind = "throw"
              /\ Outcome.message =
                     IF data.type = "object" /\ "error" \in data.fields
                     THEN [literal |-> "", taken |-> data.error]
                     ELSE IF data.type = "string" /\ ~IsBlank(data.str)
                     THEN [literal |-> "", taken |-> data.str]
                     ELSE [literal |-> "Hugging Face inference request failed.",
                           taken |-> <<>>]]_vars

\* C18 witness: the detector's call for the first sentence threw the text
\* of a failing reply, and the failing reply for the second sentence holds
\* a well-formed classification.
C18_Witness ==
    /\ pc = "parsedDetector"
    /\ idx = 2
    /\ \E k \in SettlesOf(DETECTOR_MODEL, 1) :
           outbound[k].result = Thrown(Message("", Str_overloaded))
    /\ ~reply.rejected /\ ~reply.ok
    /\ reply.data.type = "object"
    /\ {"label", "score"} \subseteq reply.data.fields

\* C19: in every 200 response biasPercentage, in tenths of a percent, is
\* between 0 and 100 percent and is 100 * biasedSentences / totalSentences
\* rounded to the nearest tenth; and when two sentences were analysed, one
\* of them counted biased and typed Framing and the other without a type,
\* the statistics are totalSentences 2, biasedSentences 1, unbiasedSentences
\* 1, biasPercentage 50.0 and biasTypeCounts {Framing: 1}.
C19_BiasPercentage ==
    Reported =>
        LET records == response.sentences
            stats   == response.statistics
            exact   == 1000 * stats.biasedSentences
            scaled  == stats.biasPercentage * stats.totalSentences
        IN  /\ stats.biasPercentage \in 0..1000
            /\ 2 * (IF scaled >= exact THEN scaled - exact ELSE exact - scaled)
                   <= stats.totalSentences
            /\ ( /\ Len(records) = 2
                 /\ Cardinality(BiasedRecords(records)) = 1
                 /\ \A n \in 1..2 :
                        records[n].biasType.present
                            <=> n \in BiasedRecords(records)
                 /\ \A n \in BiasedRecords(records) : records[n].biasType.label = Str_Framing )
                 => /\ stats.totalSentences = 2
                    /\ stats.biasedSentences = 1
                    /\ stats.unbiasedSentences = 1
                    /\ stats.biasPercentage = 500
                    /\ stats.biasTypeCounts = [l \in {Str_Framing} |-> 1]

\* C19 witness: a report of three sentences of which two are biased, at 66.7
\* percent.
C19_Witness ==
    /\ Reported
    /\ response.statistics.totalSentences = 3
    /\ response.statistics.biasedSentences = 2
    /\ response.statistics.biasPercentage = 667

\* friendlyLabel applied once more changes nothing.
IsFriendly(label) == friendlyLabel(label) = label

\* C20: friendlyLabel is idempotent: whenever a record is pushed, the
\* friendly label of the detector's label is mapped to itself, and so is
\* every friendly label the record stores (Biased and Unbiased among them).
C20_FriendlyLabelIdempotent ==
    [][Len(sentenceAnalyses') > Len(sentenceAnalyses) =>
          LET record == sentenceAnalyses'[Len(sentenceAnalyses')]
          IN  /\ IsFriendly(friendlyLabel(record.biasDetection.label))
              /\ IsFriendly(record.biasDetection.friendlyLabel)
              /\ record.biasType.present => IsFriendly(record.biasType.label)]_vars

\* C20 witness: records with the friendly labels Biased, Unbiased and, of
\* two words, Gender Bias.
C20_Witness ==
    /\ Len(sentenceAnalyses) = 2
    /\ sentenceAnalyses[1].biasDetection.friendlyLabel = Str_Biased
    /\ sentenceAnalyses[1].biasType.present
    /\ sentenceAnalyses[1].biasType.label = Str_Gender_Bias
    /\ sentenceAnalyses[2].biasDetection.friendlyLabel = Str_Unbiased

\* C21: every record of a 200 response has a detection score within [0, 1]
\* (0..1000 thousandths), whatever replies the classification client took
\* as classifications.
C21_ScoreIsProbability ==
    (Responded /\ response.status = 200) =>
        \A i \in 1..Len(response.sentences) :
            /\ response.sentences[i].biasDetection.score >= 0
            /\ response.sentences[i].biasDetection.score <= 1000

\* The stage of the handler a position belongs to, in the order of the code.
StageOf(at) ==
    CASE at = "idle"       -> 0
      [] at = "parse"      -> 1
      [] at = "validate"   -> 2
      [] at = "credential" -> 3
      [] at = "segment"    -> 4
      [] at \in {"analyze", "analyzed"} \cup (AwaitPoints \ {"idle", "parse", "responded"}) -> 5
      [] at = "aggregate"  -> 6
      [] at = "responded"  -> 7

\* The responses each stage can return.
StageResponses(stage) ==
    CASE stage = 1 -> {ErrorResponse(500, SyntaxErrorMessage(raw)) : raw \in RawBodies}
                          \cup {ErrorResponse(500, DestructureErrorMessage)}
      [] stage = 2 -> {ErrorResponse(400, "Text is required for bias analysis."),
                       ErrorResponse(500, TypeErrorMessage)}
      [] stage = 3 -> {ErrorResponse(500, "HUGGINGFACE_TOKEN is not configured on the server.")}
      [] stage = 4 -> {ErrorResponse(400, "Could not extract sentences from text.")}
      [] stage = 5 -> {ErrorResponse(502, "Failed to analyze any sentences.")}
      [] stage = 6 -> {ReportResponse(text, sentenceAnalyses)}
      [] OTHER     -> {}

\* C25: the handler goes through its stages in the order text validation,
\* credential check, segmentation, per-sentence analysis, aggregation: a
\* step stays in its stage, enters the next one or responds with a
\* response of the stage it is in; a blank text is answered 400 also
\* without a credential; and after a response of an earlier stage nothing
\* of a later stage has run (no sentences for a validation or credential
\* response, no outbound call and no record for a segmentation response).
C25_FirstFailingCheckDecides ==
    /\ [][ /\ StageOf(pc') \in {StageOf(pc), StageOf(pc) + 1, 7}
           /\ pc' = "responded" => response' \in StageResponses(StageOf(pc))
           /\ pc' # "responded" => response' = NoResponse ]_vars
    /\ []((Responded /\ ~HF_TOKEN /\ body.json /\ body.object /\ (body.hasText => body.string)
             /\ IsBlank(RequestText)) => response.status = 400)
    /\ []((Responded /\ response \in StageResponses(2) \cup StageResponses(3)) =>
             (sentences = <<>> /\ outbound = <<>> /\ sentenceAnalyses = <<>>))
    /\ []((Responded /\ response \in StageResponses(4)) =>
             (outbound = <<>> /\ sentenceAnalyses = <<>>))

\* C25 witness: without a credential, a whitespace-only text was answered
\* 400 by the validation and nothing was segmented or sent.
C25_Witness ==
    /\ Responded
    /\ ~HF_TOKEN
    /\ body.json /\ body.hasText /\ body.string
    /\ Len(body.text) >= 1
    /\ IsBlank(body.text)
    /\ response = ErrorResponse(400, "Text is required for bias analysis.")
    /\ sentences = <<>>
    /\ outbound = <<>>

\* Not empty and made of '.', '!' and '?' only.
OnlyPunctuation(t) == t # <<>> /\ \A i \in 1..Len(t) : t[i] \in Punctuation

\* C30: no sentence the splitter returned consists of sentence punctuation
\* only, and a request whose text is made of punctuation only is answered
\* 400 (a credential being configured) without any outbound call.
C30_NoPunctuationOnlySentence ==
    /\ \A i \in 1..Len(sentences) : ~IsPunctuationOnly(sentences[i])
    /\ (HF_TOKEN /\ OnlyPunctuation(RequestText)) =>
           /\ outbound = <<>>
           /\ Responded => response.status = 400

\* C24: each outbound call goes to the endpoint configured for its model,
\* DETECTOR_ENDPOINT for the detector and TYPE_CLASSIFIER_ENDPOINT for the
\* type classifier when that variable is set, and to {base_url}/{model_name}
\* otherwise.
C24_EndpointOverrides ==
    \A k \in 1..Len(outbound) :
        outbound[k].event = "call" =>
            LET override == IF outbound[k].model = DETECTOR_MODEL
                            THEN env.DETECTOR_ENDPOINT
                            ELSE env.TYPE_CLASSIFIER_ENDPOINT
            IN  outbound[k].url = IF override.set
                                  THEN override.value
                                  ELSE HF_BASE_URL \o <<"/", outbound[k].model>>

\* What the call to model for sentence i of a history came to: the result
\* it settled with, NoTypeCall when no such call settled.
SettledWith(history, model, i) ==
    LET at == {k \in 1..Len(history) :
                  /\ history[k].event = "settle"
                  /\ history[k].model = model
                  /\ history[k].sentence = i}
    IN  IF at = {} THEN NoTypeCall ELSE history[CHOOSE k \in at : TRUE].result

\* The response that the text of an invocation and the classifier's answers
\* to its own calls determine, once it has gone through its loop.
ResponseFor(locals) ==
    LET sents    == splitIntoSentences(trim(locals.body.text))
        outcomes == [i \in 1..Len(sents) |->
                        [ detection |-> SettledWith(locals.outbound, DETECTOR_MODEL, i),
                          type      |-> SettledWith(locals.outbound, TYPE_MODEL, i) ]]
        records  == LoopRecords(sents, outcomes, 1)
    IN  IF records = <<>>
        THEN ErrorResponse(502, "Failed to analyze any sentences.")
        ELSE ReportResponse(locals.body.text, records)

\* An invocation works on its own text, its calls are about its own
\* sentences, and its response is the one its text and its own answers
\* determine.
OnItsOwn(locals) ==
    /\ locals.pc \notin {"idle", "parse"} => locals.text = locals.body.text
    /\ locals.pc \notin {"idle", "parse", "validate", "credential", "segment"} =>
           locals.sentences = splitIntoSentences(trim(locals.body.text))
    /\ \A k \in 1..Len(locals.outbound) :
           /\ locals.outbound[k].sentence \in 1..Len(locals.sentences)
           /\ locals.outbound[k].sentence <= locals.idx
    /\ \A k \in 1..Len(locals.sentenceAnalyses) :
           \E i \in 1..Len(locals.sentences) :
               locals.sentenceAnalyses[k].sentence = locals.sentences[i]
    /\ locals.settled.kind = "returned" =>
           locals.settled.analysis.sentence = locals.sentences[locals.idx]
    /\ locals.pc = "responded" => locals.response = ResponseFor(locals)

\* C26: with two requests handled concurrently, in every interleaving at
\* the awaits, each request's report is determined by its own text and by
\* the classifier's answers to its own calls, and the configuration the two
\* share is never written.
C26_RequestsAreIndependent ==
    /\ OnItsOwn(Locals)
    /\ OnItsOwn(parked)
    /\ HF_TOKEN
    /\ env = DefaultEnv

\* C26 witness: the first request has its report, with a type for its
\* sentence, while the second, begun before, has both its calls settled and
\* stands in analyzeSentence at the await of the type call.
C26_Witness ==
    /\ pc = "responded"
    /\ body.text = FirstText
    /\ response.status = 200
    /\ response.sentences[1].biasType.present
    /\ parked.body.text = SecondText
    /\ parked.pc = "classifiedType"
    /\ parked.settled.kind = "ok"
    /\ Len(parked.outbound) = 4
    /\ parked.response = NoResponse

\* The runBias calls of a slot of a column, in the order they were made.
SlotRuns(c, slot) == SelectSeq(biasRuns, LAMBDA run : run.column = c /\ run.slot = slot)

\* The text of the analysis started latest among runs ("" when none was).
LatestRunText(runs) == IF runs = <<>> THEN <<>> ELSE runs[Len(runs)].text

\* Whether a step mounts a new instance of column c: the page is hydrated,
\* or another model is chosen for the column.
MountsInstance(c) ==
    /\ page'.modelsHydrated
    /\ \/ ~page.modelsHydrated
       \/ page'.selectedModels[c] # page.selectedModels[c]

\* The runBias calls a step makes: those of the instances it mounts, whose
\* columns have no other calls left, or else those added at the end.
NewRuns ==
    IF \E c \in Columns : MountsInstance(c)
    THEN SelectSeq(biasRuns', LAMBDA run : MountsInstance(run.column))
    ELSE IF Len(biasRuns') > Len(biasRuns)
    THEN SubSeq(biasRuns', Len(biasRuns) + 1, Len(biasRuns'))
    ELSE <<>>

\* C27 as amended: an analysis of a slot is started with the non-empty text
\* of the latest message of the slot's role, only when that text differs
\* from the text analysed last for the slot by the instance of the column
\* that is mounted (from nothing, when the step mounts the instance), and
\* for the response slot only when the column, as rendered by the step, is
\* not streaming; so two analyses in a row that one instance of a column
\* makes for one slot never have the same text.
C27_AnalysisOnlyOfTextChangedSinceMount ==
    /\ [][ \A n \in 1..Len(NewRuns) :
             LET run        == NewRuns[n]
                 was        == column[run.column]
                 now        == column'[run.column]
                 remembered == IF MountsInstance(run.column) THEN <<>>
                               ELSE was.lastAnalyzedText[run.slot]
                 analysed   == IF MountsInstance(run.column) THEN <<>>
                               ELSE LatestRunText(SlotRuns(run.column, run.slot))
             IN  /\ run.text # <<>>
                 /\ run.text = SlotText(now, run.slot)
                 /\ run.text # remembered
                 /\ run.text # analysed
                 /\ run.slot = "response" => now.status # "streaming" ]_vars
    /\ [](\A c \in Columns, slot \in {"prompt", "response"} :
             \A n \in 1..(Len(SlotRuns(c, slot)) - 1) :
                 SlotRuns(c, slot)[n].text # SlotRuns(c, slot)[n + 1].text)

\* C27 witness: an instance of the column has started the analyses of a
\* prompt and of its response, and the user has sent the same prompt again:
\* no analysis was started for it.
C27_Witness ==
    LET col == column[0]
    IN  /\ canUseChat
        /\ Len(col.messages) = 3
        /\ col.messages[1].role = "user"
        /\ col.messages[2].role = "assistant"
        /\ col.messages[3].role = "user"
        /\ getTextFromParts(col.messages[1].parts) = getTextFromParts(col.messages[3].parts)
        /\ Len(biasRuns) = 2
        /\ biasRuns[1] = BiasRun(0, "prompt", SlotText(col, "prompt"))
        /\ biasRuns[2] = BiasRun(0, "response", SlotText(col, "response"))
        /\ col.lastAnalyzedText["prompt"] = SlotText(col, "prompt")

\* C27 as stated: an analysis of a slot is started with the non-empty text
\* of the latest message of the slot's role, only when that text differs
\* from the text analysed last for the slot, and for the response slot
\* only when the column, as rendered by the step, is not streaming; so the
\* analysis a step starts for a slot never has the text of the analysis
\* started for the slot before it.
C27_AnalysisOnlyOfChangedText ==
    [][ \A n \in 1..Len(NewRuns) :
          LET run == NewRuns[n]
              now == column'[run.column]
          IN  /\ run.text # <<>>
              /\ run.text = SlotText(now, run.slot)
              /\ run.text # analysedLast[run.column][run.slot]
              /\ run.slot = "response" => now.status # "streaming" ]_vars

\* C28: whenever a slot of a column is 'ready', its text and result are
\* those of the analysis started latest for the slot; and the completion
\* of an analysis leaves the other slot of the column as it was.
C28_ReadyIsLatestAnalysis ==
    /\ [](\A c \in Columns, slot \in {"prompt", "response"} :
             LET state == column[c].biasState[slot]
                 runs  == SlotRuns(c, slot)
             IN  state.status = "ready" =>
                     /\ runs # <<>>
                     /\ state.text = runs[Len(runs)].text
                     /\ state.result = ResultFor(runs[Len(runs)].text))
    /\ [][ \A n \in 1..Len(biasRuns) :
             (Len(biasRuns') = Len(biasRuns) /\ ~biasRuns[n].settled /\ biasRuns'[n].settled) =>
                 LET other == IF biasRuns[n].slot = "prompt" THEN "response" ELSE "prompt"
                 IN  column'[biasRuns[n].column].biasState[other] =
                         column[biasRuns[n].column].biasState[other] ]_vars

\* C22 as amended: in a column, a non-empty text of the latest user
\* message, and a non-empty text of the latest assistant message once the
\* column does not stream, that is not the text of the latest analysis the
\* mounted instance of the column started for the slot makes the step start
\* an analysis of it and sets the slot loading, so that in every state such
\* a text is the text of the latest analysis of the slot; a slot that is
\* loading stays loading or becomes ready or error, unless the step mounts
\* a new instance of the column or the page is reloaded; and a slot does
\* not stay loading for ever in one instance of the column (either it is
\* not loading again and again, or instances are mounted again and again),
\* provided the /api/bias requests complete or fail.
C22_ChangedTextsAreAnalysed ==
    /\ [][ \A c \in Columns, slot \in {"prompt", "response"} :
             LET now      == column'[c]
                 t        == SlotText(now, slot)
                 analysed == IF MountsInstance(c) THEN <<>>
                             ELSE LatestRunText(SlotRuns(c, slot))
             IN  /\ ( /\ t # <<>>
                      /\ slot = "response" => now.status # "streaming"
                      /\ t # analysed ) =>
                        /\ \E n \in 1..Len(NewRuns) : NewRuns[n] = BiasRun(c, slot, t)
                        /\ now.biasState[slot] = LoadingSlot(t)
                 /\ ( /\ column[c].biasState[slot].status = "loading"
                      /\ ~MountsInstance(c)
                      /\ page'.modelsHydrated ) =>
                        now.biasState[slot].status \in {"loading", "ready", "error"} ]_vars
    /\ [](\A c \in Columns, slot \in {"prompt", "response"} :
             LET t == SlotText(column[c], slot)
             IN  (t # <<>> /\ (slot = "response" => column[c].status # "streaming")) =>
                     LatestRunText(SlotRuns(c, slot)) = t)
    /\ \A c \in Columns, slot \in {"prompt", "response"} :
           \/ []<>(column[c].biasState[slot].status # "loading")
           \/ []<><<MountsInstance(c)>>_vars

\* C22 witness: the analysis of the prompt 'Hello! Compare this.' is
\* ready, the analysis of its response of two chunks, which has no
\* sentence, ended with the handler's 400, and the user has sent the same
\* prompt again: its text is the text analysed last for the slot, no third
\* analysis was started and the slot still shows the report.
C22_Witness ==
    LET col == column[0]
    IN  /\ canUseChat
        /\ col.status = "submitted"
        /\ Len(col.messages) = 3
        /\ col.messages[3].role = "user"
        /\ getTextFromParts(col.messages[1].parts) = getTextFromParts(col.messages[3].parts)
        /\ SlotText(col, "prompt") = Hello
        /\ SlotText(col, "response") = <<"r", "r">>
        /\ col.biasState["prompt"] = ReadySlot(Hello, ResultFor(Hello))
        /\ col.biasState["response"] =
               ErrorSlot(<<"r", "r">>, "Could not extract sentences from text.")
        /\ Len(biasRuns) = 2
        /\ \A n \in 1..2 : biasRuns[n].settled

\* C22 as stated: in a column, every step that adds a user message with a
\* non-empty text, and every step by which a column with a non-empty latest
\* response stops streaming, starts an analysis of the text for its slot
\* and sets the slot loading; and a slot that is loading becomes ready or
\* error, provided every /api/bias request completes or fails.
C22_EveryTextIsAnalysed ==
    /\ [][ \A c \in Columns :
             LET was == column[c]
                 now == column'[c]
                 analysed(slot) ==
                     /\ \E n \in 1..Len(NewRuns) :
                            NewRuns[n] = BiasRun(c, slot, SlotText(now, slot))
                     /\ now.biasState[slot] = LoadingSlot(SlotText(now, slot))
             IN  ~MountsInstance(c) =>
                     /\ ( /\ LatestIndex(now.messages, "user") > LatestIndex(was.messages, "user")
                          /\ SlotText(now, "prompt") # <<>> ) => analysed("prompt")
                     /\ ( /\ was.status = "streaming"
                          /\ now.status # "streaming"
                          /\ SlotText(now, "response") # <<>> ) => analysed("response") ]_vars
    /\ \A c \in Columns, slot \in {"prompt", "response"} :
           (column[c].biasState[slot].status = "loading") ~>
               (column[c].biasState[slot].status \in {"ready", "error"})

\* C23: when the chat is usable and the shared prompt is not blank, 'Send
\* to all' appends the prompt as a user message to the chat of both
\* columns, streaming or not.
C23_SendAllReachesBothColumns ==
    [][ (sendAll /\ canUseChat /\ trim(page.prompt) # <<>>) =>
            \A c \in Columns :
                column'[c].messages = Append(column[c].messages, ChatMessage("user", page.prompt)) ]_vars

\* C29: once the selection is hydrated, and after every selection made in
\* a column's selector, the two columns hold two different model ids, both
\* of AVAILABLE_MODELS, and there are two panels, with different ids.
C29_TwoDistinctModels ==
    [](page.modelsHydrated =>
          /\ page.selectedModels[0] # page.selectedModels[1]
          /\ \A c \in Columns : page.selectedModels[c] \in AVAILABLE_MODELS
          /\ Cardinality(Panels) = 2
          /\ PanelId(page.selectedModels[0]) # PanelId(page.selectedModels[1]))

\* C29 witness: the selection was hydrated, and after three selections the
\* columns hold each other's default model (the selector of a column does
\* not offer the model of the other, so that a third model went between).
C29_Witness ==
    /\ page.modelsHydrated
    /\ page.selectedModels[0] = DEFAULT_MODELS[1]
    /\ page.selectedModels[1] = DEFAULT_MODELS[0]
    /\ localStorage.biascope_models_v1 = ItemOf(page.selectedModels)

====
